---- MODULE Spec2Model ----
(***************************************************************************)
(* State-machine model of the SFT runner starter pack:                     *)
(*   - generate_synthetic_data and its helpers (data_generator/tool.py),   *)
(*   - MCPToolboxClient.execute_tool (utils/mcptoolbox_client.py),         *)
(*   - fine_tune_model (fine_tuner/tool.py),                               *)
(*   - evaluate_model (evaluator/tool.py),                                 *)
(*   - full_pipeline_agent (agent.py).                                     *)
(* External services (BigQuery, Gemini, GCS, Vertex tuning) are modelled   *)
(* as nondeterministic outcomes of each call.                              *)
(***************************************************************************)
EXTENDS Integers, Sequences, FiniteSets, TLC

VARIABLES
    \* ---- the world outside the program ----
    project_id,               \* config.project_id, "None" when not configured
    bq_tables,                \* tables of the BigQuery dataset, in listing order
    local_files,              \* local working files: name -> content
    gcs_objects,              \* objects of the GCS bucket
    \* ---- generate_synthetic_data (data_generator/tool.py) ----
    gen_pc,                   \* position inside generate_synthetic_data
    gen_error,                \* exception that ended the call, "none" otherwise
    target_examples,          \* parameter target_examples
    tables_df,                \* result of the list_tables tool (table names)
    table_idx,                \* position of the for loop over tables_df
    all_schemas_string,       \* schema text: the header, then one block per table
    query_log,                \* backend queries sent by execute_tool, in order
    sample_questions,         \* question column of sample_questions_df
    all_generated_examples,   \* accepted examples, in order
    generated_questions_set,  \* seen-set
    batch_size,               \* batch_size of the current iteration
    raw_response_text,        \* what _generate_examples_batch returned
    item_count,               \* items of batch_examples consumed so far
    batch_dups,               \* of these, refused only as already seen
    dup_batches,              \* iterations whose items were all such
    gen_calls,                \* model.generate_content calls of this invocation
    gen_sleeps,               \* time.sleep(5) calls of this invocation
    folder_name,              \* run-scoped folder, 0 before it is chosen
    gen_output,               \* returned JSON, NoOutput before return
    \* ---- fine_tune_model (fine_tuner/tool.py) ----
    ft_pc,                    \* position inside fine_tune_model
    ft_error,                 \* exception that ended the call
    training_data_gcs_path,   \* parameter training_data_gcs_path
    tuning_jobs,              \* jobs submitted with sft.train, in order
    job_id,                   \* identifier of the submitted job
    endpoints,                \* result of the latest Endpoint.list
    listing_log,              \* results of all Endpoint.list calls, in order
    ft_calls,                 \* calls to the tuning service, in order
    ft_sleeps,                \* time.sleep(5) calls of this invocation
    tuned_model_endpoint,     \* endpoints[0] once the listing is non-empty
    ft_output,                \* returned JSON, NoEndpointOutput before return
    \* ---- evaluate_model (evaluator/tool.py) ----
    eval_dataset,             \* number of rows of the evaluation CSV file
    ev_pc,                    \* position inside evaluate_model
    ev_error,                 \* exception that ended the call
    model_endpoint,           \* parameter model_endpoint
    prompt_log,               \* tuned_model.generate_content calls, in order
    predictions,              \* responses generated so far, in row order
    metrics_table,            \* eval_result.metrics_table: one score row per row
    results_filename,         \* local results file, NoResults before it is named
    ev_output,                \* returned JSON, NoEvalOutput before return
    \* ---- full_pipeline_agent (agent.py) ----
    pipeline_state,           \* "off", "running", "finished" or "failed"
    pipeline_idx,             \* index in sub_agents of the running sub-agent
    \* ---- _prepare_finetuning_data_chat_format on its own ----
    fmt_pc,                   \* position inside the formatter
    infile,                   \* lines of the input file
    line_idx,                 \* next line to read
    outfile,                  \* lines written so far
    count,                    \* records written so far
    all_schemas_str,          \* parameter all_schemas_str of the formatter
    fmt_run,                  \* number of the formatter run on this input
    prev_outfile,             \* output file as the run before left it
    \* ---- two interleaved invocations of generate_synthetic_data ----
    inv_pc,                   \* position of each invocation, lines 194-227
    inv_error,                \* exception that ended each invocation
    inv_examples,             \* all_generated_examples of each invocation
    inv_folder,               \* folder_name of each invocation
    inv_output,               \* returned JSON of each invocation
    \* ---- the chat page (app.py) ----
    chat_pc,                  \* "off", "idle" (waiting for input) or "calling"
    chat_session,             \* number of the chat session of the page
    messages,                 \* st.session_state.messages
    last_result,              \* outcome of the latest call_agent_sync
    chat_escaped,             \* exception that left the chat handler
    \* ---- the services, and the observer of the run ----
    observe,                  \* the counters and logs above are being kept
    model_mode,               \* what the generative model answers from now on
    endpoint_mode,            \* what the endpoint listing shows from now on
    \* ---- MCPToolboxClient.execute_tool on its own ----
    tools_yaml,               \* self.config["tools"]: tool name -> declaration
    et_pc,                    \* position inside execute_tool
    tool_name,                \* parameter tool_name
    parameters,               \* keys of the parameter `parameters`
    query,                    \* the query built for the backend
    backend_log,              \* queries sent to the backend, in order
    df,                       \* the DataFrame returned
    et_error,                 \* exception that ended the call
    \* ---- _run_agent_async_task (app.py) ----
    sessions,                 \* sessions held by runner.session_service
    task_pc,                  \* position inside _run_agent_async_task
    task_count,               \* calls of the task so far
    session_id,               \* parameter session_id
    session,                  \* what get_session returned: found or not
    created_log,              \* create_session calls, in order
    events_generator,         \* the events runner.run yields
    consumed,                 \* events taken from the generator so far
    final_answer,             \* final_answer, "None" for None
    task_error,               \* exception raised again by the task
    \* ---- the managed event loop of the chat page (app.py) ----
    loops,                    \* event loops created so far: closed or not
    asyncio_event_loop,       \* st.session_state.asyncio_event_loop
    loop_is_managed,          \* st.session_state.loop_is_managed
    returned_loop             \* loop the latest get_or_create call returned

world_vars == << project_id, bq_tables, local_files, gcs_objects >>

gen_vars == << gen_pc, gen_error, target_examples, tables_df, table_idx,
               all_schemas_string, query_log, sample_questions,
               all_generated_examples, generated_questions_set, batch_size,
               raw_response_text, item_count, batch_dups, dup_batches,
               gen_calls, gen_sleeps, folder_name, gen_output >>

ft_vars == << ft_pc, ft_error, training_data_gcs_path, tuning_jobs, job_id,
              endpoints, listing_log, ft_calls, ft_sleeps,
              tuned_model_endpoint, ft_output >>

ev_vars == << eval_dataset, ev_pc, ev_error, model_endpoint, prompt_log,
              predictions, metrics_table, results_filename, ev_output >>

pipe_vars == << pipeline_state, pipeline_idx >>

fmt_vars == << fmt_pc, infile, line_idx, outfile, count, all_schemas_str,
               fmt_run, prev_outfile >>

inv_vars == << inv_pc, inv_error, inv_examples, inv_folder, inv_output >>

(* Components that the stages above never touch. *)
chat_vars == << chat_pc, chat_session, messages, last_result, chat_escaped >>

(* Assumptions on the services under which a run is followed. *)
env_vars == << observe, model_mode, endpoint_mode >>

tool_vars == << tools_yaml, et_pc, tool_name, parameters, query,
               backend_log, df, et_error >>

task_vars == << sessions, task_pc, task_count, session_id, session,
               created_log, events_generator, consumed, final_answer,
               task_error >>

loop_vars == << loops, asyncio_event_loop, loop_is_managed, returned_loop >>

ext_vars == << inv_vars, chat_vars, env_vars, tool_vars, task_vars,
               loop_vars >>

vars == << world_vars, gen_vars, ft_vars, ev_vars, pipe_vars, fmt_vars,
           ext_vars >>

----------------------------------------------------------------------------
(* Bounds of the model *)

MaxTarget == 2      \* largest target_examples explored
MaxCalls  == 4      \* generation calls explored per invocation
MaxItems  == 2      \* items explored per model response
MaxTables == 2      \* tables in a dataset listing
MaxPolls  == 3      \* Endpoint.list calls explored per invocation

(* Targets explored: 0..MaxTarget; where the size of a request matters,  *)
(* also one above the cap of a request.                                  *)
LargeTarget == 101
Targets     == 0..MaxTarget
WideTargets == Targets \cup {LargeTarget}

----------------------------------------------------------------------------
(* Values *)

Missing    == "<missing>"      \* key absent from a JSON object
Unhashable == "<unhashable>"   \* a non-empty JSON list or object used as question

RECURSIVE SeqsUpTo(_, _)
SeqsUpTo(S, n) ==
    IF n = 0 THEN { << >> }
    ELSE LET shorter == SeqsUpTo(S, n - 1)
         IN  shorter \cup { Append(s, x) : s \in shorter, x \in S }

Range(s) == { s[i] : i \in 1..Len(s) }

NoDup(s) == \A i, j \in 1..Len(s) : i # j => s[i] # s[j]

Min(a, b) == IF a < b THEN a ELSE b

(* The BigQuery dataset: table names in listing order, columns per table.  *)
(* The datasets explored hold the first k tables, k up to MaxTables.        *)
TableNames == {"T1", "T2", "T3"}
AllTables  == << "T1", "T2", "T3" >>
TableListings == { s \in SeqsUpTo(TableNames, MaxTables) :
                     \A i \in 1..Len(s) : s[i] = AllTables[i] }
TableColumns(t) ==
    CASE t = "T1" -> << [column_name |-> "id", data_type |-> "INT64"],
                        [column_name |-> "q",  data_type |-> "STRING"] >>
      [] t = "T2" -> << [column_name |-> "id", data_type |-> "INT64"] >>
      [] OTHER    -> << [column_name |-> "ts", data_type |-> "TIMESTAMP"] >>

(* The schema text of lines 49-60: a header naming project and dataset,    *)
(* then per table its name qualified by both and its column listing.       *)
Dataset == "dataset"
SchemaHeader(project) == [dataset |-> << project, Dataset >>]
FullTableName(project, t) == << project, Dataset, t >>
SchemaBlock(project, t, columns) ==
    [full_table_name |-> FullTableName(project, t), columns |-> columns]

(* config.project_id, config.py lines 32-34: GOOGLE_CLOUD_PROJECT or       *)
(* GCP_PROJECT_ID of the environment, None when neither is set.            *)
Project    == "my-project"
NoProject  == "None"
ProjectIds == {Project, NoProject}

(* Questions and queries a model response can carry. *)
SeedPool        == {"q0"}
QuestionStrings == {"q0", "q1", "q2"}
QueryStrings    == {"s1"}
QuestionValues  == QuestionStrings \cup {"", Missing, Unhashable}
QueryValues     == QueryStrings \cup {"", Missing}

(* One element of batch_examples: a JSON object with optional keys, or any *)
(* other JSON value.                                                       *)
Items == [isdict : {TRUE}, question : QuestionValues, query : QueryValues]
         \cup { [isdict |-> FALSE, question |-> Missing, query |-> Missing] }

(* What model.generate_content can do: raise, or return a text that is     *)
(* empty, not JSON, a JSON number/boolean/null, a JSON string, a JSON      *)
(* object, or a JSON list.                                                 *)
ModelOutcomes == {"api_error", "empty_text", "not_json", "json_scalar",
                  "json_string", "json_object", "json_list"}

(* json.loads succeeds and the result can be iterated. *)
IterableKinds == {"json_string", "json_object", "json_list"}

(* Local files and bucket objects. *)
RawFile       == "synthetic_sql_data.jsonl"             \* line 197
FormattedFile == "formatted_synthetic_sql_data.jsonl"   \* line 208
Timestamps    == {1, 2}                                 \* int(time.time())
ResultsFile(t) == << "evaluation_results", t >>         \* evaluator line 210
LocalNames == { << RawFile, 0 >>, << FormattedFile, 0 >> }
              \cup { ResultsFile(t) : t \in Timestamps }
NoFile   == [exists |-> FALSE, lines |-> << >>]
File(ls) == [exists |-> TRUE, lines |-> ls]

SftFolder(t) == << "sft_data", t >>                     \* line 195
EvalFolder   == << "evaluation_results", 0 >>           \* evaluator line 216
NoFolder     == << "", 0 >>
GcsPath(folder, name) == [folder |-> folder, name |-> name]
NoPath == GcsPath(NoFolder, << "", 0 >>)
GcsPaths == { GcsPath(SftFolder(t), n) :
                 t \in Timestamps, n \in { << RawFile, 0 >>, << FormattedFile, 0 >> } }
            \cup { GcsPath(EvalFolder, ResultsFile(t)) : t \in Timestamps }
NoOutput == [raw_data_gcs_path |-> NoPath, generated_data_gcs_path |-> NoPath]

(* Tuning jobs and endpoints of the tuning service. *)
JobIds == {"job-1", "job-2"}
Endpoint(id) == [name |-> id, resource_name |-> << "endpoints", id >>]
EndpointPool == { Endpoint("ep-123"), Endpoint("ep-456") }
NoEndpoint == [name |-> "", resource_name |-> << "", "" >>]
EndpointListings == { s \in SeqsUpTo(EndpointPool, 2) : NoDup(s) }
NoEndpointOutput == [model_endpoint |-> NoEndpoint.resource_name]

(* Evaluation: scores of the rubric explored, generated responses. *)
MaxRows     == 3      \* rows of the evaluation dataset
ScoreValues == {3, 4, 5}
ScoreRows   == [relevance : ScoreValues, helpfulness : ScoreValues \ {3},
                fulfillment : ScoreValues \ {4}]
NoResults    == << "", 0 >>
NoAverage    == [sum |-> 0, rows |-> 0]
NoEvalOutput == [average_relevance |-> NoAverage,
                 average_helpfulness |-> NoAverage,
                 average_fulfillment |-> NoAverage,
                 detailed_results_gcs_path |-> NoPath]

----------------------------------------------------------------------------
(* MCPToolboxClient.execute_tool, lines 107-116: the backend query either  *)
(* yields rows or fails; a failure is caught and an empty DataFrame is     *)
(* returned.                                                               *)

ExecuteToolPropagating(ok, rows) ==
    [raised |-> ~ok, df |-> IF ok THEN rows ELSE << >>]

execute_tool(ok, rows) ==
    [raised |-> FALSE, df |-> IF ok THEN rows ELSE << >>]

(* MCPToolboxClient.__init__, lines 65-66: bigquery.Client(project=None)   *)
(* takes the project of the ambient credentials, and raises when the       *)
(* environment has none.                                                   *)
BigQueryClient(project, ambient) ==
    IF project = NoProject /\ ~ambient THEN "EnvironmentError" ELSE "none"

(* Error raised when the table listing is empty, line 47 *)
NoTablesError == "ValueError"

(* `if tables_df.empty: raise`, lines 46-47 *)
TablesCheckSkipped(tables) == "none"

TablesCheck(tables) ==
    IF tables = << >> THEN NoTablesError ELSE "none"

(* _generate_examples_batch, lines 95-102: an exception of the model call  *)
(* is caught and None is returned.                                         *)

GenerateExamplesBatchPropagating(outcome) ==
    [raised |-> outcome = "api_error",
     text   |-> IF outcome = "api_error" THEN "None" ELSE outcome]

_generate_examples_batch(outcome) ==
    [raised |-> FALSE,
     text   |-> IF outcome = "api_error" THEN "None" ELSE outcome]

(* `if raw_response_text:` (line 171): None and "" are falsy. *)
Truthy(text) == text \notin {"None", "empty_text"}

(* while condition, line 159 *)
LoopConditionGivingUp(n, target) ==
    n < target /\ raw_response_text # "not_json"

LoopConditionInclusive(n, target) == n <= target

LoopCondition(n, target) == n < target

(* Acceptance test of one item, lines 175-184.  Result: "skip", "accept"   *)
(* or "TypeError" (an unhashable question tested against the set).         *)
AcceptItemNoDedup(item, seen) ==
    IF ~item.isdict \/ item.question = Missing \/ item.query = Missing
    THEN "skip"
    ELSE IF item.question = "" \/ item.query = "" THEN "skip"
    ELSE IF item.question = Unhashable THEN "TypeError"
    ELSE "accept"

AcceptItem(item, seen) ==
    IF ~item.isdict \/ item.question = Missing \/ item.query = Missing
    THEN "skip"
    ELSE IF item.question = "" \/ item.query = "" THEN "skip"
    ELSE IF item.question = Unhashable THEN "TypeError"
    ELSE IF item.question \in seen THEN "skip"
    ELSE "accept"

(* One line of the raw file, lines 198-200: json.dumps of the accepted     *)
(* item; json.loads of that line gives the same keys back (line 241).      *)
RawLineWithoutQuery(example) ==
    [question |-> example.question, query |-> Missing]

RawLine(example) == [question |-> example.question, query |-> example.query]

(* _prepare_finetuning_data_chat_format, lines 241-253, for one line:      *)
(* .get() gives None for an absent key; `if question and query` keeps the  *)
(* line only when both are truthy.                                         *)
FormatLineEither(line) ==
    IF line.question \notin {Missing, ""} \/ line.query \notin {Missing, ""}
    THEN << [contents |-> << [role |-> "user",  text |-> line.question],
                             [role |-> "model", text |-> line.query] >>] >>
    ELSE << >>

FormatLine(line) ==
    IF line.question \notin {Missing, ""} /\ line.query \notin {Missing, ""}
    THEN << [contents |-> << [role |-> "user",  text |-> line.question],
                             [role |-> "model", text |-> line.query] >>] >>
    ELSE << >>

(* The whole output file for a given input file, lines 239-253. *)
RECURSIVE PrepareChatFormat(_)
PrepareChatFormat(lines) ==
    IF lines = << >> THEN << >>
    ELSE FormatLine(Head(lines)) \o PrepareChatFormat(Tail(lines))

----------------------------------------------------------------------------
(* The world *)

FilesInit ==
    /\ local_files = [f \in LocalNames |-> NoFile]
    /\ gcs_objects = [p \in GcsPaths |-> NoFile]

----------------------------------------------------------------------------
(* generate_synthetic_data *)

GenLocalsInit ==
    /\ gen_error = "none"
    /\ tables_df = << >>
    /\ table_idx = 0
    /\ all_schemas_string = << >>
    /\ query_log = << >>
    /\ sample_questions = {}
    /\ all_generated_examples = << >>
    /\ generated_questions_set = {}
    /\ batch_size = 0
    /\ raw_response_text = "None"
    /\ item_count = 0
    /\ batch_dups = 0
    /\ dup_batches = 0
    /\ gen_calls = 0
    /\ gen_sleeps = 0
    /\ folder_name = NoFolder
    /\ gen_output = NoOutput

(* Not invoked. *)
GenIdle ==
    /\ gen_pc = "idle"
    /\ GenLocalsInit

(* Invoked by data_generator_agent. *)
GenInit ==
    /\ gen_pc = "list_tables"
    /\ GenLocalsInit

GenFail(err) ==
    /\ gen_pc' = "failed"
    /\ gen_error' = err

(* line 138 and lines 42-51: build the toolbox client (Config.validate is  *)
(* not called anywhere), list the tables, fail when there is none          *)
ListTables ==
    /\ gen_pc = "list_tables"
    /\ \E ambient \in BOOLEAN, ok \in BOOLEAN :
         LET r == execute_tool(ok, bq_tables) IN
         IF BigQueryClient(project_id, ambient) # "none"
         THEN GenFail(BigQueryClient(project_id, ambient))
              /\ UNCHANGED << query_log, tables_df, table_idx,
                              all_schemas_string >>
         ELSE
         /\ query_log' = Append(query_log,
                [tool |-> "list_tables", table_id |-> "", ok |-> ok])
         /\ IF r.raised
            THEN GenFail("QueryError")
                 /\ UNCHANGED << tables_df, table_idx, all_schemas_string >>
            ELSE IF TablesCheck(r.df) # "none"
            THEN GenFail(TablesCheck(r.df))
                 /\ UNCHANGED << tables_df, table_idx, all_schemas_string >>
            ELSE /\ tables_df' = r.df
                 /\ table_idx' = 1
                 /\ all_schemas_string' = << SchemaHeader(project_id) >>
                 /\ gen_pc' = IF r.df = << >> THEN "read_seed"
                              ELSE "get_table_schema"
                 /\ UNCHANGED gen_error
    /\ UNCHANGED << target_examples, sample_questions,
                    all_generated_examples, generated_questions_set,
                    batch_size, raw_response_text, item_count, batch_dups,
                    dup_batches, gen_calls, gen_sleeps, folder_name,
                    gen_output >>
    /\ UNCHANGED << world_vars, ft_vars, ev_vars, pipe_vars, fmt_vars >>
    /\ UNCHANGED ext_vars

(* line 52: the table of one pass of `for table_name in tables_df[...]` *)
TableAtFromEnd(tables, idx) == tables[Len(tables) + 1 - idx]

TableAt(tables, idx) == tables[idx]

(* lines 52-60: one pass of the for loop over tables_df["table_name"] *)
GetTableSchema ==
    /\ gen_pc = "get_table_schema"
    /\ table_idx <= Len(tables_df)
    /\ \E ok \in BOOLEAN :
         LET table_name == TableAt(tables_df, table_idx)
             r == execute_tool(ok, TableColumns(table_name)) IN
         /\ query_log' = Append(query_log,
                [tool |-> "get_table_schema", table_id |-> table_name,
                 ok |-> ok])
         /\ IF r.raised
            THEN GenFail("QueryError")
                 /\ UNCHANGED << all_schemas_string, table_idx >>
            ELSE /\ all_schemas_string' = Append(all_schemas_string,
                        SchemaBlock(project_id, table_name, r.df))
                 /\ table_idx' = table_idx + 1
                 /\ gen_pc' = IF table_idx = Len(tables_df)
                              THEN "read_seed" ELSE "get_table_schema"
                 /\ UNCHANGED gen_error
    /\ UNCHANGED << target_examples, tables_df, sample_questions,
                    all_generated_examples, generated_questions_set,
                    batch_size, raw_response_text, item_count, batch_dups, dup_batches, gen_calls,
                    gen_sleeps, folder_name, gen_output >>
    /\ UNCHANGED << world_vars, ft_vars, ev_vars, pipe_vars, fmt_vars >>
    /\ UNCHANGED ext_vars

(* lines 154-157: read the seed questions, start with an empty list *)
ReadSeed ==
    /\ gen_pc = "read_seed"
    /\ \E seeds \in SUBSET SeedPool :
         /\ sample_questions' = seeds
         /\ generated_questions_set' = seeds
    /\ all_generated_examples' = << >>
    /\ gen_pc' = "loop"
    /\ UNCHANGED << gen_error, target_examples, tables_df, table_idx,
                    all_schemas_string, query_log, batch_size,
                    raw_response_text, item_count, batch_dups, dup_batches, gen_calls, gen_sleeps,
                    folder_name, gen_output >>
    /\ UNCHANGED << world_vars, ft_vars, ev_vars, pipe_vars, fmt_vars >>
    /\ UNCHANGED ext_vars

(* Counters and logs of calls and sleeps are kept for the properties; the  *)
(* program holds no such state.  A run can be followed without them.       *)
Tick(counter) == IF observe THEN counter + 1 ELSE counter
Log(log, entry) == IF observe THEN Append(log, entry) ELSE log

(* Answers of the generative model that yield nothing: the call raises,    *)
(* the text is empty or is not JSON, or it is a JSON list whose items are  *)
(* skipped (already seen, not an object, a key missing or empty).          *)
FruitlessOutcomes == {"api_error", "empty_text", "not_json", "json_list"}
ModelMayAnswer(outcome) ==
    model_mode = "fruitless" => outcome \in FruitlessOutcomes
ModelMayList(item, seen) ==
    model_mode = "fruitless" => AcceptItem(item, seen) = "skip"

(* line 160: the number of examples asked for in one request *)
BatchCap == 100

BatchSizeAlwaysCap(target, n) == BatchCap

BatchSize(target, n) == Min(BatchCap, target - n)

(* lines 159-169: loop test, batch size, one generation call *)
RequestBatch ==
    /\ gen_pc = "loop"
    /\ LoopCondition(Len(all_generated_examples), target_examples)
    /\ gen_calls < MaxCalls
    /\ batch_size' = BatchSize(target_examples, Len(all_generated_examples))
    /\ gen_calls' = Tick(gen_calls)
    /\ item_count' = 0
    /\ batch_dups' = 0
    /\ UNCHANGED dup_batches
    /\ \E outcome \in ModelOutcomes :
         LET r == _generate_examples_batch(outcome) IN
         /\ ModelMayAnswer(outcome)
         /\ IF r.raised
            THEN GenFail("ApiError") /\ UNCHANGED raw_response_text
            ELSE /\ raw_response_text' = r.text
                 /\ gen_pc' = "response"
                 /\ UNCHANGED gen_error
    /\ UNCHANGED << target_examples, tables_df, table_idx, all_schemas_string,
                    query_log, sample_questions, all_generated_examples,
                    generated_questions_set, gen_sleeps, folder_name,
                    gen_output >>
    /\ UNCHANGED << world_vars, ft_vars, ev_vars, pipe_vars, fmt_vars >>
    /\ UNCHANGED ext_vars

(* The item is refused only because its question is in the seen-set. *)
SeenDuplicate(item, seen) ==
    AcceptItem(item, seen) = "skip" /\ AcceptItem(item, {}) = "accept"

(* lines 190-192: end of an iteration, sleep when still short of target *)
EndIterationSleepAlways ==
    /\ gen_sleeps' = Tick(gen_sleeps)
    /\ dup_batches' = IF item_count > 0 /\ batch_dups = item_count
                      THEN Tick(dup_batches) ELSE dup_batches
    /\ gen_pc' = "loop"
    /\ UNCHANGED gen_error

EndIteration ==
    /\ gen_sleeps' = IF LoopCondition(Len(all_generated_examples),
                                      target_examples)
                     THEN Tick(gen_sleeps) ELSE gen_sleeps
    /\ dup_batches' = IF item_count > 0 /\ batch_dups = item_count
                      THEN Tick(dup_batches) ELSE dup_batches
    /\ gen_pc' = "loop"
    /\ UNCHANGED gen_error

(* lines 171-174, 187-188: truthiness test, json.loads, start of the for.  *)
(* A JSONDecodeError is caught; a value that cannot be iterated raises     *)
(* TypeError, which is not.                                                *)
ParseResponse ==
    /\ gen_pc = "response"
    /\ IF ~Truthy(raw_response_text) \/ raw_response_text = "not_json"
       THEN EndIteration
       ELSE IF raw_response_text \notin IterableKinds
       THEN GenFail("TypeError") /\ UNCHANGED << gen_sleeps, dup_batches >>
       ELSE /\ gen_pc' = "items"
            /\ UNCHANGED << gen_error, gen_sleeps, dup_batches >>
    /\ UNCHANGED << target_examples, tables_df, table_idx, all_schemas_string,
                    query_log, sample_questions, all_generated_examples,
                    generated_questions_set, batch_size, raw_response_text,
                    item_count, batch_dups, gen_calls, folder_name,
                    gen_output >>
    /\ UNCHANGED << world_vars, ft_vars, ev_vars, pipe_vars, fmt_vars >>
    /\ UNCHANGED ext_vars

(* lines 185-186: an accepted item joins the list and the seen-set *)
AccumulateInFront(examples, item) ==
    << [question |-> item.question, query |-> item.query] >> \o examples

Accumulate(examples, item) ==
    Append(examples, [question |-> item.question, query |-> item.query])

(* lines 174-186: one pass of `for item in batch_examples`.  Iterating a   *)
(* JSON string or object yields strings, never objects.                    *)
ProcessItem ==
    /\ gen_pc = "items"
    /\ item_count < MaxItems
    /\ \E item \in Items :
         /\ raw_response_text # "json_list" => ~item.isdict
         /\ ModelMayList(item, generated_questions_set)
         /\ LET verdict == AcceptItem(item, generated_questions_set) IN
            /\ IF verdict = "accept"
               THEN /\ all_generated_examples' =
                          Accumulate(all_generated_examples, item)
                    /\ generated_questions_set' =
                          generated_questions_set \cup {item.question}
               ELSE UNCHANGED << all_generated_examples,
                                 generated_questions_set >>
            /\ IF verdict = "TypeError"
               THEN GenFail("TypeError")
               ELSE UNCHANGED << gen_pc, gen_error >>
         /\ batch_dups' = IF SeenDuplicate(item, generated_questions_set)
                          THEN batch_dups + 1 ELSE batch_dups
    /\ item_count' = item_count + 1
    /\ UNCHANGED << target_examples, tables_df, table_idx, all_schemas_string,
                    query_log, sample_questions, batch_size, raw_response_text,
                    dup_batches, gen_calls, gen_sleeps, folder_name,
                    gen_output >>
    /\ UNCHANGED << world_vars, ft_vars, ev_vars, pipe_vars, fmt_vars >>
    /\ UNCHANGED ext_vars

(* lines 190-192 after the last item of the batch *)
EndBatch ==
    /\ gen_pc = "items"
    /\ EndIteration
    /\ UNCHANGED << target_examples, tables_df, table_idx, all_schemas_string,
                    query_log, sample_questions, all_generated_examples,
                    generated_questions_set, batch_size, raw_response_text,
                    item_count, batch_dups, gen_calls, folder_name,
                    gen_output >>
    /\ UNCHANGED << world_vars, ft_vars, ev_vars, pipe_vars, fmt_vars >>
    /\ UNCHANGED ext_vars

(* lines 159, 194-201: the loop exits, the run folder is named and the raw *)
(* file written, one line per example                                      *)
WriteRawFile ==
    /\ gen_pc = "loop"
    /\ ~LoopCondition(Len(all_generated_examples), target_examples)
    /\ \E t \in Timestamps : folder_name' = SftFolder(t)
    /\ local_files' = [local_files EXCEPT ![<< RawFile, 0 >>] =
            File([i \in 1..Len(all_generated_examples) |->
                     RawLine(all_generated_examples[i])])]
    /\ gen_pc' = "upload_raw"
    /\ UNCHANGED << gen_error, target_examples, tables_df, table_idx,
                    all_schemas_string, query_log, sample_questions,
                    all_generated_examples, generated_questions_set,
                    batch_size, raw_response_text, item_count, batch_dups, dup_batches, gen_calls,
                    gen_sleeps, gen_output >>
    /\ UNCHANGED << project_id, bq_tables, gcs_objects, ft_vars, ev_vars,
                    pipe_vars, fmt_vars >>
    /\ UNCHANGED ext_vars

(* _upload_to_gcs, lines 106-118: the blob <folder>/<basename> receives    *)
(* the content of the local file; the upload may raise.                    *)
UploadToGcsNowhere(ok, local_path, folder) == gcs_objects

_upload_to_gcs(ok, local_path, folder) ==
    IF ok
    THEN [gcs_objects EXCEPT ![GcsPath(folder, local_path)] =
              local_files[local_path]]
    ELSE gcs_objects

(* line 202 *)
UploadRawFile ==
    /\ gen_pc = "upload_raw"
    /\ \E ok \in BOOLEAN :
         /\ gcs_objects' = _upload_to_gcs(ok, << RawFile, 0 >>, folder_name)
         /\ IF ok THEN gen_pc' = "format" /\ UNCHANGED gen_error
                  ELSE GenFail("UploadError")
    /\ UNCHANGED << target_examples, tables_df, table_idx, all_schemas_string,
                    query_log, sample_questions, all_generated_examples,
                    generated_questions_set, batch_size, raw_response_text,
                    item_count, batch_dups, dup_batches, gen_calls, gen_sleeps, folder_name,
                    gen_output >>
    /\ UNCHANGED << project_id, bq_tables, local_files, ft_vars, ev_vars,
                    pipe_vars, fmt_vars >>
    /\ UNCHANGED ext_vars

(* lines 208-213: the formatter reads the raw file, writes the formatted *)
FormatFile ==
    /\ gen_pc = "format"
    /\ local_files' = [local_files EXCEPT ![<< FormattedFile, 0 >>] =
            File(PrepareChatFormat(local_files[<< RawFile, 0 >>].lines))]
    /\ gen_pc' = "upload_formatted"
    /\ UNCHANGED << gen_error, target_examples, tables_df, table_idx,
                    all_schemas_string, query_log, sample_questions,
                    all_generated_examples, generated_questions_set,
                    batch_size, raw_response_text, item_count, batch_dups, dup_batches, gen_calls,
                    gen_sleeps, folder_name, gen_output >>
    /\ UNCHANGED << project_id, bq_tables, gcs_objects, ft_vars, ev_vars,
                    pipe_vars, fmt_vars >>
    /\ UNCHANGED ext_vars

(* lines 214-216 *)
UploadFormattedFile ==
    /\ gen_pc = "upload_formatted"
    /\ \E ok \in BOOLEAN :
         /\ gcs_objects' =
               _upload_to_gcs(ok, << FormattedFile, 0 >>, folder_name)
         /\ IF ok THEN gen_pc' = "remove" /\ UNCHANGED gen_error
                  ELSE GenFail("UploadError")
    /\ UNCHANGED << target_examples, tables_df, table_idx, all_schemas_string,
                    query_log, sample_questions, all_generated_examples,
                    generated_questions_set, batch_size, raw_response_text,
                    item_count, batch_dups, dup_batches, gen_calls, gen_sleeps, folder_name,
                    gen_output >>
    /\ UNCHANGED << project_id, bq_tables, local_files, ft_vars, ev_vars,
                    pipe_vars, fmt_vars >>
    /\ UNCHANGED ext_vars

(* lines 218-227: delete both local files, return the two locations.  The *)
(* locals of the call, and the counters kept per call, end with it.        *)
RemoveAndReturn ==
    /\ gen_pc = "remove"
    /\ local_files' = [local_files EXCEPT ![<< RawFile, 0 >>] = NoFile,
                                          ![<< FormattedFile, 0 >>] = NoFile]
    /\ gen_output' =
         [raw_data_gcs_path |-> GcsPath(folder_name, << RawFile, 0 >>),
          generated_data_gcs_path |->
              GcsPath(folder_name, << FormattedFile, 0 >>)]
    /\ gen_pc' = "returned"
    /\ tables_df' = << >>
    /\ table_idx' = 0
    /\ all_schemas_string' = << >>
    /\ query_log' = << >>
    /\ sample_questions' = {}
    /\ all_generated_examples' = << >>
    /\ generated_questions_set' = {}
    /\ batch_size' = 0
    /\ raw_response_text' = "None"
    /\ item_count' = 0
    /\ batch_dups' = 0
    /\ dup_batches' = 0
    /\ gen_calls' = 0
    /\ gen_sleeps' = 0
    /\ folder_name' = NoFolder
    /\ UNCHANGED << gen_error, target_examples >>
    /\ UNCHANGED << project_id, bq_tables, gcs_objects, ft_vars, ev_vars,
                    pipe_vars, fmt_vars >>
    /\ UNCHANGED ext_vars

GenNext ==
    \/ ListTables
    \/ GetTableSchema
    \/ ReadSeed
    \/ RequestBatch
    \/ ParseResponse
    \/ ProcessItem
    \/ EndBatch
    \/ WriteRawFile
    \/ UploadRawFile
    \/ FormatFile
    \/ UploadFormattedFile
    \/ RemoveAndReturn

----------------------------------------------------------------------------
(* fine_tune_model *)

FtLocalsInit ==
    /\ ft_error = "none"
    /\ tuning_jobs = << >>
    /\ job_id = ""
    /\ endpoints = << >>
    /\ listing_log = << >>
    /\ ft_calls = << >>
    /\ ft_sleeps = 0
    /\ tuned_model_endpoint = NoEndpoint
    /\ ft_output = NoEndpointOutput

(* Not invoked. *)
FtIdle ==
    /\ ft_pc = "idle"
    /\ training_data_gcs_path = NoPath
    /\ FtLocalsInit

(* Invoked by fine_tuner_agent with the path the user gave. *)
FtInit ==
    /\ ft_pc = "submit"
    /\ training_data_gcs_path \in GcsPaths
    /\ FtLocalsInit

FtFail(err) ==
    /\ ft_pc' = "failed"
    /\ ft_error' = err

(* lines 41-66: submit one tuning job, keep its identifier *)
SubmitTuningJob ==
    /\ ft_pc = "submit"
    /\ \E ok \in BOOLEAN, id \in JobIds :
         /\ ft_calls' = Log(ft_calls, [call |-> "train", ok |-> ok])
         /\ IF ok
            THEN /\ tuning_jobs' = Append(tuning_jobs,
                       [source_model |-> "flash_model",
                        train_dataset |-> training_data_gcs_path,
                        epochs |-> 4, adapter_size |-> 4, job_id |-> id])
                 /\ job_id' = id
                 /\ ft_pc' = "polling"
                 /\ UNCHANGED ft_error
            ELSE FtFail("TuningError") /\ UNCHANGED << tuning_jobs, job_id >>
    /\ UNCHANGED << training_data_gcs_path, endpoints, listing_log, ft_sleeps,
                    tuned_model_endpoint, ft_output >>
    /\ UNCHANGED << world_vars, gen_vars, ev_vars, pipe_vars, fmt_vars >>
    /\ UNCHANGED ext_vars

(* lines 70-72, aiplatform.Endpoint.list: the listing, or an exception     *)
(* that nothing in fine_tune_model catches                                 *)
EndpointListSwallowing(ok, listing) ==
    [raised |-> FALSE, endpoints |-> IF ok THEN listing ELSE << >>]

EndpointList(ok, listing) ==
    [raised |-> ~ok, endpoints |-> IF ok THEN listing ELSE << >>]

(* line 74: the endpoint taken from a non-empty listing *)
ChosenEndpointLast(listing) == listing[Len(listing)]

ChosenEndpoint(listing) == listing[1]

(* lines 73-78: sleep after a listing unless it was non-empty *)
SleepsAfterAlways(listing) == 1

SleepsAfter(listing) == IF listing # << >> THEN 0 ELSE 1

(* lines 73-75, `if endpoints: ... break` *)
EndpointFoundNever(listing) == FALSE

EndpointFound(listing) == listing # << >>

(* What Endpoint.list may answer: with the endpoint never created (the     *)
(* job is stuck or has failed) every listing is empty; once the model is   *)
(* deployed every listing has it.                                          *)
ServiceMayList(ok, listing) ==
    /\ endpoint_mode = "never" => ok /\ listing = << >>
    /\ endpoint_mode = "deployed" => listing # << >>

(* lines 69-78: one pass of the polling loop *)
ListEndpoints ==
    /\ ft_pc = "polling"
    /\ Len(listing_log) < MaxPolls
    /\ \E ok \in BOOLEAN, listing \in EndpointListings :
         LET r == EndpointList(ok, listing) IN
         /\ ServiceMayList(ok, listing)
         /\ ft_calls' = Log(ft_calls, [call |-> "list", ok |-> ok])
         /\ IF ~r.raised
            THEN /\ endpoints' = r.endpoints
                 /\ listing_log' = Log(listing_log, r.endpoints)
                 /\ ft_sleeps' = IF SleepsAfter(r.endpoints) = 1
                                 THEN Tick(ft_sleeps) ELSE ft_sleeps
                 /\ IF EndpointFound(r.endpoints)
                    THEN /\ tuned_model_endpoint' = ChosenEndpoint(r.endpoints)
                         /\ ft_pc' = "ready"
                    ELSE UNCHANGED << tuned_model_endpoint, ft_pc >>
                 /\ UNCHANGED ft_error
            ELSE /\ FtFail("ListError")
                 /\ UNCHANGED << endpoints, listing_log, ft_sleeps,
                                 tuned_model_endpoint >>
    /\ UNCHANGED << training_data_gcs_path, tuning_jobs, job_id, ft_output >>
    /\ UNCHANGED << world_vars, gen_vars, ev_vars, pipe_vars, fmt_vars >>
    /\ UNCHANGED ext_vars

(* lines 80-82: return the endpoint's resource name; the locals of the    *)
(* call end with it, the submitted job stays with the tuning service.      *)
ReturnEndpoint ==
    /\ ft_pc = "ready"
    /\ ft_output' = [model_endpoint |-> tuned_model_endpoint.resource_name]
    /\ ft_pc' = "returned"
    /\ job_id' = ""
    /\ endpoints' = << >>
    /\ listing_log' = << >>
    /\ ft_calls' = << >>
    /\ ft_sleeps' = 0
    /\ tuned_model_endpoint' = NoEndpoint
    /\ UNCHANGED << ft_error, training_data_gcs_path, tuning_jobs >>
    /\ UNCHANGED << world_vars, gen_vars, ev_vars, pipe_vars, fmt_vars >>
    /\ UNCHANGED ext_vars

FtNext ==
    \/ SubmitTuningJob
    \/ ListEndpoints
    \/ ReturnEndpoint

----------------------------------------------------------------------------
(* evaluate_model *)

EvLocalsInit ==
    /\ ev_error = "none"
    /\ prompt_log = << >>
    /\ predictions = << >>
    /\ metrics_table = << >>
    /\ results_filename = NoResults
    /\ ev_output = NoEvalOutput

(* Not invoked. *)
EvIdle ==
    /\ ev_pc = "idle"
    /\ model_endpoint = NoEndpoint.resource_name
    /\ EvLocalsInit

(* Invoked by evaluator_agent with the endpoint the user gave. *)
EvInit ==
    /\ ev_pc = "predict"
    /\ model_endpoint \in { e.resource_name : e \in EndpointPool }
    /\ EvLocalsInit

EvFail(err) ==
    /\ ev_pc' = "failed"
    /\ ev_error' = err

(* lines 88-93, `for _, row in eval_df.iterrows()`: the row the next call   *)
(* of the list comprehension is made for                                   *)
NextRowFirst(preds) == 1

NextRow(preds) == Len(preds) + 1

(* lines 89-91, tuned_model.generate_content(...).text.strip(): the call   *)
(* gives a text or raises; nothing around it catches the exception         *)
GenerateContentIsolated(ok) ==
    [raised |-> FALSE, text |-> IF ok THEN "sql" ELSE ""]

GenerateContent(ok) ==
    [raised |-> ~ok, text |-> IF ok THEN "sql" ELSE ""]

(* lines 88-93: one generate_content call of the list comprehension, for   *)
(* the next row of eval_df; an exception of the call is not caught.        *)
GeneratePrediction ==
    /\ ev_pc = "predict"
    /\ Len(predictions) < eval_dataset
    /\ \E ok \in BOOLEAN :
         LET row      == NextRow(predictions)
             response == GenerateContent(ok)
         IN  /\ prompt_log' = Append(prompt_log,
                                     [row |-> row, endpoint |-> model_endpoint,
                                      ok |-> ok])
             /\ IF response.raised
                THEN EvFail("ApiError") /\ UNCHANGED predictions
                ELSE /\ predictions' = Append(predictions,
                                           [row |-> row, text |-> response.text])
                     /\ UNCHANGED << ev_pc, ev_error >>
    /\ UNCHANGED << eval_dataset, model_endpoint, metrics_table,
                    results_filename, ev_output >>
    /\ UNCHANGED << world_vars, gen_vars, ft_vars, pipe_vars, fmt_vars >>
    /\ UNCHANGED ext_vars

(* lines 94-208: all predictions are in; EvalTask.evaluate() scores every  *)
(* row on the three metrics, or raises                                     *)
Evaluate ==
    /\ ev_pc = "predict"
    /\ Len(predictions) = eval_dataset
    /\ \E ok \in BOOLEAN, table \in [1..eval_dataset -> ScoreRows] :
         IF ok
         THEN /\ metrics_table' = table
              /\ ev_pc' = "save"
              /\ UNCHANGED ev_error
         ELSE EvFail("EvalError") /\ UNCHANGED metrics_table
    /\ UNCHANGED << eval_dataset, model_endpoint, prompt_log, predictions,
                    results_filename, ev_output >>
    /\ UNCHANGED << world_vars, gen_vars, ft_vars, pipe_vars, fmt_vars >>
    /\ UNCHANGED ext_vars

(* lines 210-212: write the metrics table to a timestamped local file *)
SaveResults ==
    /\ ev_pc = "save"
    /\ \E t \in Timestamps :
         /\ results_filename' = ResultsFile(t)
         /\ local_files' = [local_files EXCEPT ![ResultsFile(t)] =
                                File(metrics_table)]
    /\ ev_pc' = "upload"
    /\ UNCHANGED << eval_dataset, ev_error, model_endpoint, prompt_log,
                    predictions, metrics_table, ev_output >>
    /\ UNCHANGED << project_id, bq_tables, gcs_objects, gen_vars, ft_vars,
                    pipe_vars, fmt_vars >>
    /\ UNCHANGED ext_vars

(* lines 215-217 *)
UploadResults ==
    /\ ev_pc = "upload"
    /\ \E ok \in BOOLEAN :
         /\ gcs_objects' = _upload_to_gcs(ok, results_filename, EvalFolder)
         /\ IF ok THEN ev_pc' = "averages" /\ UNCHANGED ev_error
                  ELSE EvFail("UploadError")
    /\ UNCHANGED << eval_dataset, model_endpoint, prompt_log, predictions,
                    metrics_table, results_filename, ev_output >>
    /\ UNCHANGED << project_id, bq_tables, local_files, gen_vars, ft_vars,
                    pipe_vars, fmt_vars >>
    /\ UNCHANGED ext_vars

RECURSIVE SumScores(_, _)
SumScores(table, metric) ==
    IF table = << >> THEN 0
    ELSE Head(table)[metric] + SumScores(Tail(table), metric)

(* lines 220-222: Series.mean() of one score column, kept as the exact     *)
(* fraction sum/rows (rows = 0 is NaN)                                     *)
MeanFirstRow(table, metric) ==
    IF table = << >> THEN [sum |-> 0, rows |-> 0]
    ELSE [sum |-> Head(table)[metric], rows |-> 1]

Mean(table, metric) ==
    [sum |-> SumScores(table, metric), rows |-> Len(table)]

(* lines 219-234: averages, delete the local file, return; the locals of   *)
(* the call end with it                                                    *)
AverageAndReturn ==
    /\ ev_pc = "averages"
    /\ local_files' = [local_files EXCEPT ![results_filename] = NoFile]
    /\ ev_output' =
         [average_relevance   |-> Mean(metrics_table, "relevance"),
          average_helpfulness |-> Mean(metrics_table, "helpfulness"),
          average_fulfillment |-> Mean(metrics_table, "fulfillment"),
          detailed_results_gcs_path |-> GcsPath(EvalFolder, results_filename)]
    /\ ev_pc' = "returned"
    /\ predictions' = << >>
    /\ metrics_table' = << >>
    /\ results_filename' = NoResults
    /\ UNCHANGED << eval_dataset, ev_error, model_endpoint, prompt_log >>
    /\ UNCHANGED << project_id, bq_tables, gcs_objects, gen_vars, ft_vars,
                    pipe_vars, fmt_vars >>
    /\ UNCHANGED ext_vars

EvNext ==
    \/ GeneratePrediction
    \/ Evaluate
    \/ SaveResults
    \/ UploadResults
    \/ AverageAndReturn

----------------------------------------------------------------------------
(* full_pipeline_agent: a SequentialAgent runs its sub-agents one after    *)
(* the other, each to completion; each sub-agent calls its one tool, with  *)
(* the argument found in the previous sub-agent's result.                  *)

sub_agents_tuner_first ==
    << "fine_tuner_agent", "data_generator_agent", "evaluator_agent" >>

sub_agents ==
    << "data_generator_agent", "fine_tuner_agent", "evaluator_agent" >>

(* Position of the tool an agent calls. *)
ToolPc(agent) ==
    CASE agent = "data_generator_agent" -> gen_pc
      [] agent = "fine_tuner_agent"     -> ft_pc
      [] OTHER                          -> ev_pc

PipeOff ==
    /\ pipeline_state = "off"
    /\ pipeline_idx = 0

(* The sub-agent calls its tool. *)
CallTool(agent) ==
    CASE agent = "data_generator_agent" ->
           /\ gen_pc' = "list_tables"
           /\ UNCHANGED << gen_error, target_examples, tables_df, table_idx,
                           all_schemas_string, query_log, sample_questions,
                           all_generated_examples, generated_questions_set,
                           batch_size, raw_response_text, item_count, batch_dups, dup_batches,
                           gen_calls, gen_sleeps, folder_name, gen_output >>
           /\ UNCHANGED << ft_vars, ev_vars >>
      [] agent = "fine_tuner_agent" ->
           /\ ft_pc' = "submit"
           /\ training_data_gcs_path' = gen_output.generated_data_gcs_path
           /\ UNCHANGED << ft_error, tuning_jobs, job_id, endpoints,
                           listing_log, ft_calls, ft_sleeps,
                           tuned_model_endpoint, ft_output >>
           /\ UNCHANGED << gen_vars, ev_vars >>
      [] OTHER ->
           /\ ev_pc' = "predict"
           /\ model_endpoint' = ft_output.model_endpoint
           /\ UNCHANGED << eval_dataset, ev_error, prompt_log, predictions,
                           metrics_table, results_filename, ev_output >>
           /\ UNCHANGED << gen_vars, ft_vars >>

(* agent.py lines 96-104: the next sub-agent starts once the one before it *)
(* has run to completion                                                   *)
RunSubAgent ==
    /\ pipeline_state = "running"
    /\ pipeline_idx < Len(sub_agents)
    /\ pipeline_idx > 0 => ToolPc(sub_agents[pipeline_idx]) = "returned"
    /\ pipeline_idx' = pipeline_idx + 1
    /\ CallTool(sub_agents[pipeline_idx + 1])
    /\ UNCHANGED << pipeline_state, world_vars, fmt_vars >>
    /\ UNCHANGED ext_vars

(* The last sub-agent has run to completion. *)
PipelineFinish ==
    /\ pipeline_state = "running"
    /\ pipeline_idx = Len(sub_agents)
    /\ ToolPc(sub_agents[pipeline_idx]) = "returned"
    /\ pipeline_state' = "finished"
    /\ UNCHANGED << pipeline_idx, world_vars, gen_vars, ft_vars, ev_vars,
                    fmt_vars >>
    /\ UNCHANGED ext_vars

(* An exception of a tool is not caught by the agents: the run ends. *)
PipelineFail ==
    /\ pipeline_state = "running"
    /\ pipeline_idx > 0
    /\ ToolPc(sub_agents[pipeline_idx]) = "failed"
    /\ pipeline_state' = "failed"
    /\ UNCHANGED << pipeline_idx, world_vars, gen_vars, ft_vars, ev_vars,
                    fmt_vars >>
    /\ UNCHANGED ext_vars

----------------------------------------------------------------------------
(* _prepare_finetuning_data_chat_format, read line by line *)

FmtIdle ==
    /\ fmt_pc = "idle"
    /\ infile = << >>
    /\ line_idx = 0
    /\ outfile = << >>
    /\ count = 0
    /\ all_schemas_str = << >>
    /\ fmt_run = 0
    /\ prev_outfile = << >>

MaxLines == 3
LineRecords == [question : {Missing, "", "q1", "q2"},
                query : {Missing, "", "s1", "s2"}]

MaxRuns == 2           \* formatter runs explored on one input file

(* Schema texts the caller may pass. *)
SchemaTexts ==
    { << >>, << SchemaHeader(Project),
                SchemaBlock(Project, "T1", TableColumns("T1")) >> }

(* open(output_jsonl_path, "w"), line 239: what is left of a file that     *)
(* held `old`                                                              *)
OpenForAppend(old) == old

OpenForWrite(old) == << >>

(* lines 238-239: both files are opened, the output file is truncated *)
FmtInit ==
    /\ fmt_pc = "lines"
    /\ infile \in SeqsUpTo(LineRecords, MaxLines)
    /\ line_idx = 1
    /\ outfile = << >>
    /\ count = 0
    /\ all_schemas_str \in SchemaTexts
    /\ fmt_run = 1
    /\ prev_outfile = << >>

(* lines 240-253: one pass of `for line in infile` *)
FormatNextLine ==
    /\ fmt_pc = "lines"
    /\ line_idx <= Len(infile)
    /\ outfile' = outfile \o FormatLine(infile[line_idx])
    /\ count' = count + Len(FormatLine(infile[line_idx]))
    /\ line_idx' = line_idx + 1
    /\ UNCHANGED << fmt_pc, infile, all_schemas_str, fmt_run, prev_outfile >>
    /\ UNCHANGED << world_vars, gen_vars, ft_vars, ev_vars, pipe_vars >>
    /\ UNCHANGED ext_vars

(* lines 254-259: end of file, both files are closed *)
FormatDone ==
    /\ fmt_pc = "lines"
    /\ line_idx > Len(infile)
    /\ fmt_pc' = "done"
    /\ UNCHANGED << infile, line_idx, outfile, count, all_schemas_str,
                    fmt_run, prev_outfile >>
    /\ UNCHANGED << world_vars, gen_vars, ft_vars, ev_vars, pipe_vars >>
    /\ UNCHANGED ext_vars

(* lines 231-239 again: the formatter is applied once more to the same     *)
(* input and output paths, with whatever schema text the caller passes     *)
FormatAgain ==
    /\ fmt_pc = "done"
    /\ fmt_run < MaxRuns
    /\ fmt_run' = fmt_run + 1
    /\ prev_outfile' = outfile
    /\ outfile' = OpenForWrite(outfile)
    /\ all_schemas_str' \in SchemaTexts
    /\ line_idx' = 1
    /\ count' = 0
    /\ fmt_pc' = "lines"
    /\ UNCHANGED infile
    /\ UNCHANGED << world_vars, gen_vars, ft_vars, ev_vars, pipe_vars >>
    /\ UNCHANGED ext_vars

----------------------------------------------------------------------------
(* Two invocations of generate_synthetic_data running in one process (two  *)
(* sessions of the app), each past its generation loop: lines 194-227 of   *)
(* each, interleaved.  They share the working directory and the bucket.    *)

Invocations == {1, 2}
MaxAccepted == 1       \* examples accepted by each invocation
ExamplePool == { [question |-> "q1", query |-> "s1"],
                 [question |-> "q2", query |-> "s2"] }
AcceptedLists == { s \in SeqsUpTo(ExamplePool, MaxAccepted) : NoDup(s) }

(* No invocation is running. *)
InvIdle ==
    /\ inv_pc = [i \in Invocations |-> "idle"]
    /\ inv_error = [i \in Invocations |-> "none"]
    /\ inv_examples = [i \in Invocations |-> << >>]
    /\ inv_folder = [i \in Invocations |-> NoFolder]
    /\ inv_output = [i \in Invocations |-> NoOutput]

(* line 192: both loops have ended, each with its own accepted examples *)
InvInit ==
    /\ inv_pc = [i \in Invocations |-> "write"]
    /\ inv_error = [i \in Invocations |-> "none"]
    /\ inv_examples \in [Invocations -> AcceptedLists]
    /\ inv_folder = [i \in Invocations |-> NoFolder]
    /\ inv_output = [i \in Invocations |-> NoOutput]

InvFail(i, err) ==
    /\ inv_pc' = [inv_pc EXCEPT ![i] = "failed"]
    /\ inv_error' = [inv_error EXCEPT ![i] = err]

InvGoto(i, pc) ==
    /\ inv_pc' = [inv_pc EXCEPT ![i] = pc]
    /\ UNCHANGED inv_error

(* lines 195-201: choose the folder name from the clock, write the raw     *)
(* file under its fixed name in the working directory                      *)
InvWriteRawFile(i) ==
    /\ inv_pc[i] = "write"
    /\ \E t \in Timestamps :
         inv_folder' = [inv_folder EXCEPT ![i] = SftFolder(t)]
    /\ local_files' = [local_files EXCEPT ![<< RawFile, 0 >>] =
            File([k \in 1..Len(inv_examples[i]) |->
                     RawLine(inv_examples[i][k])])]
    /\ InvGoto(i, "upload_raw")
    /\ UNCHANGED << inv_examples, inv_output >>
    /\ UNCHANGED << project_id, bq_tables, gcs_objects, gen_vars, ft_vars,
                    ev_vars, pipe_vars, fmt_vars, chat_vars, env_vars, tool_vars, task_vars, loop_vars >>

(* line 202: upload_from_filename raises when the file is gone *)
InvUploadRawFile(i) ==
    /\ inv_pc[i] = "upload_raw"
    /\ IF ~local_files[<< RawFile, 0 >>].exists
       THEN InvFail(i, "FileNotFoundError") /\ UNCHANGED gcs_objects
       ELSE \E ok \in BOOLEAN :
              /\ gcs_objects' =
                    _upload_to_gcs(ok, << RawFile, 0 >>, inv_folder[i])
              /\ IF ok THEN InvGoto(i, "format")
                       ELSE InvFail(i, "UploadError")
    /\ UNCHANGED << inv_examples, inv_folder, inv_output >>
    /\ UNCHANGED << project_id, bq_tables, local_files, gen_vars, ft_vars,
                    ev_vars, pipe_vars, fmt_vars, chat_vars, env_vars, tool_vars, task_vars, loop_vars >>

(* lines 203-213: the formatter reads the raw file of the working          *)
(* directory and writes the formatted file under its fixed name            *)
InvFormatFile(i) ==
    /\ inv_pc[i] = "format"
    /\ IF ~local_files[<< RawFile, 0 >>].exists
       THEN InvFail(i, "FileNotFoundError") /\ UNCHANGED local_files
       ELSE /\ local_files' = [local_files EXCEPT ![<< FormattedFile, 0 >>] =
                 File(PrepareChatFormat(local_files[<< RawFile, 0 >>].lines))]
            /\ InvGoto(i, "upload_formatted")
    /\ UNCHANGED << inv_examples, inv_folder, inv_output >>
    /\ UNCHANGED << project_id, bq_tables, gcs_objects, gen_vars, ft_vars,
                    ev_vars, pipe_vars, fmt_vars, chat_vars, env_vars, tool_vars, task_vars, loop_vars >>

(* lines 214-216 *)
InvUploadFormattedFile(i) ==
    /\ inv_pc[i] = "upload_formatted"
    /\ IF ~local_files[<< FormattedFile, 0 >>].exists
       THEN InvFail(i, "FileNotFoundError") /\ UNCHANGED gcs_objects
       ELSE \E ok \in BOOLEAN :
              /\ gcs_objects' =
                    _upload_to_gcs(ok, << FormattedFile, 0 >>, inv_folder[i])
              /\ IF ok THEN InvGoto(i, "remove")
                       ELSE InvFail(i, "UploadError")
    /\ UNCHANGED << inv_examples, inv_folder, inv_output >>
    /\ UNCHANGED << project_id, bq_tables, local_files, gen_vars, ft_vars,
                    ev_vars, pipe_vars, fmt_vars, chat_vars, env_vars, tool_vars, task_vars, loop_vars >>

(* lines 218-227: os.remove of the raw file, then of the formatted file    *)
(* (each raises when the file is gone), then return                        *)
InvRemoveAndReturn(i) ==
    /\ inv_pc[i] = "remove"
    /\ IF ~local_files[<< RawFile, 0 >>].exists
       THEN InvFail(i, "FileNotFoundError")
            /\ UNCHANGED << local_files, inv_output >>
       ELSE IF ~local_files[<< FormattedFile, 0 >>].exists
       THEN /\ InvFail(i, "FileNotFoundError")
            /\ local_files' = [local_files EXCEPT ![<< RawFile, 0 >>] = NoFile]
            /\ UNCHANGED inv_output
       ELSE /\ local_files' =
                 [local_files EXCEPT ![<< RawFile, 0 >>] = NoFile,
                                     ![<< FormattedFile, 0 >>] = NoFile]
            /\ inv_output' = [inv_output EXCEPT ![i] =
                 [raw_data_gcs_path |->
                      GcsPath(inv_folder[i], << RawFile, 0 >>),
                  generated_data_gcs_path |->
                      GcsPath(inv_folder[i], << FormattedFile, 0 >>)]]
            /\ InvGoto(i, "returned")
    /\ UNCHANGED << inv_examples, inv_folder >>
    /\ UNCHANGED << project_id, bq_tables, gcs_objects, gen_vars, ft_vars,
                    ev_vars, pipe_vars, fmt_vars, chat_vars, env_vars, tool_vars, task_vars, loop_vars >>

----------------------------------------------------------------------------
(* app.py: the chat page of one browser session.  Each prompt reruns the   *)
(* script; the handler of lines 256-305 runs to its end before the next    *)
(* prompt is taken.                                                        *)

MaxPrompts  == 2       \* prompts explored per chat session
MaxSessions == 2       \* chat sessions explored (Start New Chat Session)
Prompts == {"p1", "p2"}

(* Texts of a final response, after .strip() (line 118).  "None" stands    *)
(* for None: no final response, or one without text.                       *)
Answers      == {"ok", "SELECT 1", "SELECT  1"}
FinalAnswers == Answers \cup {"None", ""}

WarningMessage == "The agent did not provide a final answer."    \* line 287
ErrorMessage   == "An error occurred while processing your request."

(* stream_text, lines 212-216, joined by lines 275-280: the words of the   *)
(* answer, each followed by one space                                      *)
StreamText(text) ==
    CASE text = "ok"        -> "ok "
      [] text = "SELECT 1"  -> "SELECT 1 "
      [] text = "SELECT  1" -> "SELECT 1 "
      [] OTHER              -> ""

(* call_agent_sync, lines 136-150: the answer of the agent task, or the    *)
(* exception of the task or of the loop, raised again                      *)
call_agent_sync(raises, answer) ==
    [raised |-> raises, final_answer |-> IF raises THEN "None" ELSE answer]

(* lines 265-305: what the handler appends for a result of the call, and   *)
(* the exception that leaves it                                            *)
HandleResultUncaught(result) ==
    IF result.raised
    THEN [append |-> << >>, escaped |-> "Exception"]
    ELSE IF result.final_answer \notin {"None", ""}
    THEN [append |-> << [role |-> "assistant",
                         content |-> StreamText(result.final_answer)] >>,
          escaped |-> "none"]
    ELSE [append |-> << [role |-> "assistant", content |-> WarningMessage] >>,
          escaped |-> "none"]

HandleResult(result) ==
    IF result.raised
    THEN [append |-> << [role |-> "assistant", content |-> ErrorMessage] >>,
          escaped |-> "none"]
    ELSE IF result.final_answer \notin {"None", ""}
    THEN [append |-> << [role |-> "assistant",
                         content |-> StreamText(result.final_answer)] >>,
          escaped |-> "none"]
    ELSE [append |-> << [role |-> "assistant", content |-> WarningMessage] >>,
          escaped |-> "none"]

(* Values of the two keys of st.session_state: a key can be absent; the    *)
(* loop key holds None or a loop (its number in `loops`).                  *)
Absent == -1
NoLoop == 0
IsLoop(stored) == stored \notin {Absent, NoLoop}

(* get_or_create_managed_loop, lines 160-173 *)
get_or_create_managed_loop(ls, stored, flag) ==
    IF stored = Absent \/ stored = NoLoop \/ ls[stored].closed
    THEN [loops |-> Append(ls, [closed |-> FALSE]),
          stored |-> Len(ls) + 1, flag |-> "True",
          returned |-> Len(ls) + 1]
    ELSE [loops |-> ls, stored |-> stored, flag |-> flag,
          returned |-> stored]

(* lines 190: what the loop key holds after the close *)
StoredAfterCloseKept(stored) == stored

StoredAfterClose(stored) == NoLoop

(* close_managed_loop, lines 180-191; loop.close() may raise, which is     *)
(* logged and leaves the loop open                                         *)
close_managed_loop(ls, stored, flag, raises) ==
    IF flag = "True" /\ IsLoop(stored)
    THEN [loops |-> IF ~ls[stored].closed /\ ~raises
                    THEN [ls EXCEPT ![stored].closed = TRUE] ELSE ls,
          stored |-> StoredAfterClose(stored), flag |-> "False"]
    ELSE [loops |-> ls, stored |-> stored, flag |-> flag]

(* No loop has been created; the keys are not in st.session_state. *)
NoManagedLoop ==
    /\ loops = << >>
    /\ asyncio_event_loop = Absent
    /\ loop_is_managed = "absent"
    /\ returned_loop = NoLoop

(* The page is not open. *)
ChatOff ==
    /\ chat_pc = "off"
    /\ chat_session = 0
    /\ messages = << >>
    /\ last_result = call_agent_sync(FALSE, "None")
    /\ chat_escaped = "none"
    /\ NoManagedLoop

(* lines 219-225: first run of the script in a browser session *)
ChatInit ==
    /\ chat_pc = "idle"
    /\ chat_session = 1
    /\ messages = << >>
    /\ last_result = call_agent_sync(FALSE, "None")
    /\ chat_escaped = "none"
    /\ NoManagedLoop

(* lines 256-260: a prompt is submitted; the user message is appended *)
SubmitPrompt ==
    /\ chat_pc = "idle"
    /\ Len(messages) < 2 * MaxPrompts
    /\ \E prompt \in Prompts :
         messages' = Append(messages, [role |-> "user", content |-> prompt])
    /\ chat_pc' = "calling"
    /\ UNCHANGED << chat_session, last_result, chat_escaped >>
    /\ UNCHANGED << world_vars, gen_vars, ft_vars, ev_vars, pipe_vars,
                    fmt_vars, inv_vars, env_vars, tool_vars, task_vars, loop_vars >>

(* lines 263-305: call_agent_sync gets the managed loop (line 139), runs   *)
(* the task on it and returns or raises; one assistant message is appended *)
(* and the script run ends                                                 *)
AgentAnswers ==
    /\ chat_pc = "calling"
    /\ \E raises \in BOOLEAN, answer \in FinalAnswers :
         LET result == call_agent_sync(raises, answer) IN
         /\ last_result' = result
         /\ messages' = messages \o HandleResult(result).append
         /\ chat_escaped' = HandleResult(result).escaped
    /\ LET got == get_or_create_managed_loop(loops, asyncio_event_loop,
                                              loop_is_managed) IN
       /\ loops' = got.loops
       /\ asyncio_event_loop' = got.stored
       /\ loop_is_managed' = got.flag
       /\ returned_loop' = got.returned
    /\ chat_pc' = "idle"
    /\ UNCHANGED chat_session
    /\ UNCHANGED << world_vars, gen_vars, ft_vars, ev_vars, pipe_vars,
                    fmt_vars, inv_vars, env_vars, tool_vars, task_vars >>

(* lines 237-245: Start New Chat Session: the managed loop is closed, then *)
(* new session id, empty history                                           *)
StartNewChatSession ==
    /\ chat_pc = "idle"
    /\ chat_session < MaxSessions
    /\ \E raises \in BOOLEAN :
         LET closed == close_managed_loop(loops, asyncio_event_loop,
                                          loop_is_managed, raises) IN
         /\ loops' = closed.loops
         /\ asyncio_event_loop' = closed.stored
         /\ loop_is_managed' = closed.flag
    /\ chat_session' = chat_session + 1
    /\ messages' = << >>
    /\ UNCHANGED << chat_pc, last_result, chat_escaped, returned_loop >>
    /\ UNCHANGED << world_vars, gen_vars, ft_vars, ev_vars, pipe_vars,
                    fmt_vars, inv_vars, env_vars, tool_vars, task_vars >>

----------------------------------------------------------------------------
(* MCPToolboxClient.execute_tool called on its own, with any tool name and *)
(* parameters, against any tools.yaml.                                     *)

ToolNames  == {"list_tables", "execute_sql"}
ParamNames == {"query", "dataset_id", "table_id"}
ToolKinds  == {"bigquery-sql", "bigquery-execute-sql", "postgres-sql"}

(* A tool that tools.yaml does not declare (.get gives None), and the      *)
(* declarations it can hold: a kind, and the placeholders of the statement *)
Undeclared  == [kind |-> "<undeclared>", placeholders |-> {}]
ToolEntries == {Undeclared} \cup
               [kind : ToolKinds,
                placeholders : { {}, {"dataset_id"},
                                 {"dataset_id", "table_id"} }]
ResultRows == << "row" >>

(* lines 86-105: look the tool up, build the query for its kind, or raise *)
BuildQueryAnyKind(yaml, name, params) ==
    LET tool_config == yaml[name] IN
    IF tool_config = Undeclared
    THEN [error |-> "ValueError", query |-> ""]
    ELSE IF tool_config.kind = "bigquery-execute-sql"
    THEN IF "query" \notin params
         THEN [error |-> "ValueError", query |-> ""]
         ELSE [error |-> "none", query |-> "parameters[query]"]
    ELSE IF tool_config.kind = "bigquery-sql"
    THEN IF tool_config.placeholders \subseteq params
         THEN [error |-> "none", query |-> "statement"]
         ELSE [error |-> "KeyError", query |-> ""]
    ELSE [error |-> "none", query |-> ""]

BuildQuery(yaml, name, params) ==
    LET tool_config == yaml[name] IN
    IF tool_config = Undeclared
    THEN [error |-> "ValueError", query |-> ""]
    ELSE IF tool_config.kind = "bigquery-execute-sql"
    THEN IF "query" \notin params
         THEN [error |-> "ValueError", query |-> ""]
         ELSE [error |-> "none", query |-> "parameters[query]"]
    ELSE IF tool_config.kind = "bigquery-sql"
    THEN IF tool_config.placeholders \subseteq params
         THEN [error |-> "none", query |-> "statement"]
         ELSE [error |-> "KeyError", query |-> ""]
    ELSE [error |-> "ValueError", query |-> ""]

(* execute_tool is not being called on its own. *)
ToolIdle ==
    /\ tools_yaml = [n \in ToolNames |-> Undeclared]
    /\ et_pc = "idle"
    /\ tool_name = ""
    /\ parameters = {}
    /\ query = ""
    /\ backend_log = << >>
    /\ df = << >>
    /\ et_error = "none"

(* lines 69-81: the call, with `parameters` defaulting to {} *)
ToolInit ==
    /\ tools_yaml \in [ToolNames -> ToolEntries]
    /\ et_pc = "start"
    /\ tool_name \in ToolNames
    /\ parameters \in SUBSET ParamNames
    /\ query = ""
    /\ backend_log = << >>
    /\ df = << >>
    /\ et_error = "none"

(* lines 86-105 *)
PrepareQuery ==
    /\ et_pc = "start"
    /\ LET r == BuildQuery(tools_yaml, tool_name, parameters) IN
       IF r.error # "none"
       THEN /\ et_pc' = "failed"
            /\ et_error' = r.error
            /\ UNCHANGED query
       ELSE /\ et_pc' = "query"
            /\ query' = r.query
            /\ UNCHANGED et_error
    /\ UNCHANGED << tools_yaml, tool_name, parameters, backend_log, df >>
    /\ UNCHANGED << world_vars, gen_vars, ft_vars, ev_vars, pipe_vars,
                    fmt_vars, inv_vars, chat_vars, env_vars, task_vars, loop_vars >>

(* lines 107-116: the query goes to the backend; its rows are returned, or *)
(* an empty DataFrame when it fails                                        *)
RunQuery ==
    /\ et_pc = "query"
    /\ \E ok \in BOOLEAN :
         LET r == execute_tool(ok, ResultRows) IN
         /\ backend_log' = Append(backend_log, [query |-> query, ok |-> ok])
         /\ IF r.raised
            THEN /\ et_pc' = "failed"
                 /\ et_error' = "QueryError"
                 /\ UNCHANGED df
            ELSE /\ et_pc' = "returned"
                 /\ df' = r.df
                 /\ UNCHANGED et_error
    /\ UNCHANGED << tools_yaml, tool_name, parameters, query >>
    /\ UNCHANGED << world_vars, gen_vars, ft_vars, ev_vars, pipe_vars,
                    fmt_vars, inv_vars, chat_vars, env_vars, task_vars, loop_vars >>

----------------------------------------------------------------------------
(* app.py, _run_agent_async_task: calls of the task, one after the other,  *)
(* against one session service, for one app and one user.                  *)

MaxTasks   == 2        \* calls of the task explored
MaxEvents  == 2        \* events explored per run of the agent
SessionIds == {"session_1", "session_2"}

(* An event: final response or not, and its content: none, no parts, a     *)
(* first part without text, or the text of the first part.                 *)
EventTexts    == {"", "  ", " hi ", "ok"}
EventContents == {"None", "no_parts", "no_text"} \cup EventTexts
Events        == [final : BOOLEAN, content : EventContents]

(* str.strip(), line 118 *)
Strip(text) ==
    CASE text = "  "   -> ""
      [] text = " hi " -> "hi"
      [] OTHER         -> text

(* line 99, `if not session` *)
SessionMissingAlways(found) == TRUE

SessionMissing(found) == ~found

(* line 115, `event.is_final_response() and event.content` *)
IsFinalWithContent(event) == event.final /\ event.content # "None"

(* lines 116-120: the answer taken from such an event *)
AnswerOf(event) ==
    IF event.content \in EventTexts \ {""}
    THEN Strip(event.content) ELSE "None"

TaskLocalsInit ==
    /\ session = FALSE
    /\ events_generator = << >>
    /\ consumed = 0
    /\ final_answer = "None"
    /\ task_error = "none"

(* The task is not being called. *)
TaskIdle ==
    /\ sessions = {}
    /\ task_pc = "idle"
    /\ task_count = 0
    /\ session_id = ""
    /\ created_log = << >>
    /\ TaskLocalsInit

(* First call, against a session service without sessions (line 62). *)
TaskInit ==
    /\ sessions = {}
    /\ task_pc = "get_session"
    /\ task_count = 1
    /\ session_id \in SessionIds
    /\ created_log = << >>
    /\ TaskLocalsInit

TaskFail(err) ==
    /\ task_pc' = "failed"
    /\ task_error' = err

(* lines 94-97: look the session up *)
GetSession ==
    /\ task_pc = "get_session"
    /\ \E ok \in BOOLEAN :
         IF ok
         THEN /\ session' = (session_id \in sessions)
              /\ task_pc' = IF SessionMissing(session_id \in sessions)
                            THEN "create_session" ELSE "run"
              /\ UNCHANGED task_error
         ELSE TaskFail("SessionError") /\ UNCHANGED session
    /\ UNCHANGED << sessions, task_count, session_id, created_log,
                    events_generator, consumed, final_answer >>
    /\ UNCHANGED << world_vars, gen_vars, ft_vars, ev_vars, pipe_vars,
                    fmt_vars, inv_vars, chat_vars, env_vars, tool_vars,
                    loop_vars >>

(* lines 99-103: create the session that was not found *)
CreateSession ==
    /\ task_pc = "create_session"
    /\ \E ok \in BOOLEAN :
         IF ok
         THEN /\ sessions' = sessions \cup {session_id}
              /\ created_log' = Append(created_log, session_id)
              /\ task_pc' = "run"
              /\ UNCHANGED task_error
         ELSE TaskFail("SessionError") /\ UNCHANGED << sessions, created_log >>
    /\ UNCHANGED << task_count, session_id, session, events_generator,
                    consumed, final_answer >>
    /\ UNCHANGED << world_vars, gen_vars, ft_vars, ev_vars, pipe_vars,
                    fmt_vars, inv_vars, chat_vars, env_vars, tool_vars,
                    loop_vars >>

(* lines 106-110: runner.run gives the generator of the agent's events *)
RunAgent ==
    /\ task_pc = "run"
    /\ events_generator' \in SeqsUpTo(Events, MaxEvents)
    /\ consumed' = 0
    /\ final_answer' = "None"
    /\ task_pc' = "events"
    /\ UNCHANGED << sessions, task_count, session_id, session, created_log,
                    task_error >>
    /\ UNCHANGED << world_vars, gen_vars, ft_vars, ev_vars, pipe_vars,
                    fmt_vars, inv_vars, chat_vars, env_vars, tool_vars,
                    loop_vars >>

(* lines 113-121: one pass of `for event in events_generator`; the agent   *)
(* may raise instead of yielding the event                                 *)
ConsumeEvent ==
    /\ task_pc = "events"
    /\ consumed < Len(events_generator)
    /\ \E raises \in BOOLEAN :
         LET event == events_generator[consumed + 1] IN
         IF raises
         THEN TaskFail("AgentError") /\ UNCHANGED << consumed, final_answer >>
         ELSE /\ consumed' = consumed + 1
              /\ IF IsFinalWithContent(event)
                 THEN /\ final_answer' = AnswerOf(event)
                      /\ task_pc' = "returned"
                 ELSE UNCHANGED << final_answer, task_pc >>
              /\ UNCHANGED task_error
    /\ UNCHANGED << sessions, task_count, session_id, session, created_log,
                    events_generator >>
    /\ UNCHANGED << world_vars, gen_vars, ft_vars, ev_vars, pipe_vars,
                    fmt_vars, inv_vars, chat_vars, env_vars, tool_vars,
                    loop_vars >>

(* lines 113, 123: the generator is exhausted; final_answer is returned *)
EndOfEvents ==
    /\ task_pc = "events"
    /\ consumed = Len(events_generator)
    /\ task_pc' = "returned"
    /\ UNCHANGED << sessions, task_count, session_id, session, created_log,
                    events_generator, consumed, final_answer, task_error >>
    /\ UNCHANGED << world_vars, gen_vars, ft_vars, ev_vars, pipe_vars,
                    fmt_vars, inv_vars, chat_vars, env_vars, tool_vars,
                    loop_vars >>

(* lines 81-92: the task is called again, for the same or another session; *)
(* the sessions of the service stay                                        *)
CallTaskAgain ==
    /\ task_pc \in {"returned", "failed"}
    /\ task_count < MaxTasks
    /\ task_count' = task_count + 1
    /\ session_id' \in SessionIds
    /\ task_pc' = "get_session"
    /\ session' = FALSE
    /\ events_generator' = << >>
    /\ consumed' = 0
    /\ final_answer' = "None"
    /\ task_error' = "none"
    /\ UNCHANGED << sessions, created_log >>
    /\ UNCHANGED << world_vars, gen_vars, ft_vars, ev_vars, pipe_vars,
                    fmt_vars, inv_vars, chat_vars, env_vars, tool_vars,
                    loop_vars >>

(* Every counter and log is kept; nothing is assumed of the services. *)
EnvIdle ==
    /\ observe = TRUE
    /\ model_mode = "any"
    /\ endpoint_mode = "any"

(* From its next answer on, the generative model yields nothing new. *)
ModelTurnsFruitless ==
    /\ model_mode = "any"
    /\ gen_pc \notin {"response", "items"}
    /\ model_mode' = "fruitless"
    /\ UNCHANGED << observe, endpoint_mode >>
    /\ UNCHANGED << world_vars, gen_vars, ft_vars, ev_vars, pipe_vars,
                    fmt_vars, inv_vars, chat_vars, tool_vars, task_vars, loop_vars >>

(* The tuning job gets stuck or fails (no endpoint will ever match it), or *)
(* the tuned model is deployed (an endpoint matches from now on).          *)
EndpointFate ==
    /\ endpoint_mode = "any"
    /\ endpoint_mode' \in {"never", "deployed"}
    /\ UNCHANGED << observe, model_mode >>
    /\ UNCHANGED << world_vars, gen_vars, ft_vars, ev_vars, pipe_vars,
                    fmt_vars, inv_vars, chat_vars, tool_vars, task_vars, loop_vars >>

(* No component outside the three stages and the formatter is active. *)
ExtIdle == InvIdle /\ ChatOff /\ EnvIdle /\ ToolIdle /\ TaskIdle

----------------------------------------------------------------------------
(* Specifications *)

(* data_generator_agent runs generate_synthetic_data once. *)
Init ==
    /\ project_id \in ProjectIds
    /\ bq_tables \in TableListings /\ FilesInit
    /\ target_examples \in Targets
    /\ GenInit /\ FtIdle
    /\ eval_dataset = 0 /\ EvIdle /\ PipeOff /\ FmtIdle
    /\ ExtIdle

Next == GenNext

Spec == Init /\ [][Next]_vars

(* generate_synthetic_data runs once on a dataset of one table, for a     *)
(* target that may exceed what one request asks for.                      *)
BatchInit ==
    /\ project_id = Project
    /\ bq_tables = << "T1" >> /\ FilesInit
    /\ target_examples \in WideTargets
    /\ GenInit /\ FtIdle
    /\ eval_dataset = 0 /\ EvIdle /\ PipeOff /\ FmtIdle
    /\ ExtIdle

BatchNext == GenNext

SpecBatch == BatchInit /\ [][BatchNext]_vars

(* fine_tuner_agent runs fine_tune_model once. *)
TuneInit ==
    /\ project_id = Project
    /\ bq_tables = << >> /\ FilesInit
    /\ target_examples = 0 /\ GenIdle /\ FtInit
    /\ eval_dataset = 0 /\ EvIdle /\ PipeOff /\ FmtIdle
    /\ ExtIdle

TuneNext == FtNext

SpecTune == TuneInit /\ [][TuneNext]_vars

(* evaluator_agent runs evaluate_model once. *)
EvalInit ==
    /\ project_id = Project
    /\ bq_tables = << >> /\ FilesInit
    /\ target_examples = 0 /\ GenIdle /\ FtIdle
    /\ eval_dataset \in 0..MaxRows /\ EvInit /\ PipeOff /\ FmtIdle
    /\ ExtIdle

EvalNext == EvNext

SpecEval == EvalInit /\ [][EvalNext]_vars

(* full_pipeline_agent runs the three stages. *)
PipelineInit ==
    /\ project_id = Project
    /\ bq_tables \in { << "T1" >>, << >> } /\ FilesInit
    /\ target_examples = 1 /\ GenIdle /\ FtIdle
    /\ eval_dataset = 1 /\ EvIdle /\ FmtIdle
    /\ pipeline_state = "running"
    /\ pipeline_idx = 0
    /\ ExtIdle

PipelineNext ==
    \/ RunSubAgent
    \/ PipelineFinish
    \/ PipelineFail
    \/ GenNext
    \/ FtNext
    \/ EvNext

SpecPipeline == PipelineInit /\ [][PipelineNext]_vars

(* The formatter applied to an arbitrary input file. *)
FormatInit ==
    /\ project_id = Project
    /\ bq_tables = << >> /\ FilesInit
    /\ target_examples = 0 /\ GenIdle /\ FtIdle
    /\ eval_dataset = 0 /\ EvIdle /\ PipeOff /\ FmtInit
    /\ ExtIdle

FormatNext ==
    \/ FormatNextLine
    \/ FormatDone
    \/ FormatAgain

SpecFormat == FormatInit /\ [][FormatNext]_vars

(* Two sessions run generate_synthetic_data at the same time. *)
ConcurrentInit ==
    /\ project_id = Project
    /\ bq_tables = << >> /\ FilesInit
    /\ target_examples = 0 /\ GenIdle /\ FtIdle
    /\ eval_dataset = 0 /\ EvIdle /\ PipeOff /\ FmtIdle
    /\ InvInit /\ ChatOff /\ EnvIdle /\ ToolIdle /\ TaskIdle

ConcurrentNext ==
    \/ \E i \in Invocations : InvWriteRawFile(i)
    \/ \E i \in Invocations : InvUploadRawFile(i)
    \/ \E i \in Invocations : InvFormatFile(i)
    \/ \E i \in Invocations : InvUploadFormattedFile(i)
    \/ \E i \in Invocations : InvRemoveAndReturn(i)

SpecConcurrent == ConcurrentInit /\ [][ConcurrentNext]_vars

(* One browser session of the chat page. *)
ChatPageInit ==
    /\ project_id = Project
    /\ bq_tables = << >> /\ FilesInit
    /\ target_examples = 0 /\ GenIdle /\ FtIdle
    /\ eval_dataset = 0 /\ EvIdle /\ PipeOff /\ FmtIdle
    /\ InvIdle /\ ChatInit /\ EnvIdle /\ ToolIdle /\ TaskIdle

ChatNext ==
    \/ SubmitPrompt
    \/ AgentAnswers
    \/ StartNewChatSession

SpecChat == ChatPageInit /\ [][ChatNext]_vars

(* The generation loop followed without a bound on its iterations: the    *)
(* thread runs whenever it can, the generative model answers as it likes   *)
(* and may at some point stop yielding anything new.                       *)
LoopInit ==
    /\ project_id = Project
    /\ bq_tables = << "T1" >> /\ FilesInit
    /\ target_examples \in WideTargets
    /\ GenInit /\ FtIdle
    /\ eval_dataset = 0 /\ EvIdle /\ PipeOff /\ FmtIdle
    /\ InvIdle /\ ChatOff
    /\ observe = FALSE
    /\ model_mode = "any"
    /\ endpoint_mode = "any"
    /\ ToolIdle /\ TaskIdle

LoopNext ==
    \/ GenNext
    \/ ModelTurnsFruitless

SpecLoop == LoopInit /\ [][LoopNext]_vars /\ WF_vars(GenNext)

(* The polling loop followed without a bound on its passes: the thread     *)
(* runs whenever it can; the tuning job may get stuck or fail, or the      *)
(* tuned model may get deployed.                                           *)
PollInit ==
    /\ project_id = Project
    /\ bq_tables = << >> /\ FilesInit
    /\ target_examples = 0 /\ GenIdle /\ FtInit
    /\ eval_dataset = 0 /\ EvIdle /\ PipeOff /\ FmtIdle
    /\ InvIdle /\ ChatOff
    /\ observe = FALSE
    /\ model_mode = "any"
    /\ endpoint_mode = "any"
    /\ ToolIdle /\ TaskIdle

PollNext ==
    \/ FtNext
    \/ EndpointFate

SpecPoll == PollInit /\ [][PollNext]_vars /\ WF_vars(FtNext)

(* One call of execute_tool. *)
ToolCallInit ==
    /\ project_id = Project
    /\ bq_tables = << >> /\ FilesInit
    /\ target_examples = 0 /\ GenIdle /\ FtIdle
    /\ eval_dataset = 0 /\ EvIdle /\ PipeOff /\ FmtIdle
    /\ InvIdle /\ ChatOff /\ EnvIdle /\ ToolInit /\ TaskIdle

ToolCallNext ==
    \/ PrepareQuery
    \/ RunQuery

SpecToolCall == ToolCallInit /\ [][ToolCallNext]_vars

(* Calls of _run_agent_async_task. *)
AgentTaskInit ==
    /\ project_id = Project
    /\ bq_tables = << >> /\ FilesInit
    /\ target_examples = 0 /\ GenIdle /\ FtIdle
    /\ eval_dataset = 0 /\ EvIdle /\ PipeOff /\ FmtIdle
    /\ InvIdle /\ ChatOff /\ EnvIdle /\ ToolIdle /\ TaskInit

AgentTaskNext ==
    \/ GetSession
    \/ CreateSession
    \/ RunAgent
    \/ ConsumeEvent
    \/ EndOfEvents
    \/ CallTaskAgain

SpecAgentTask == AgentTaskInit /\ [][AgentTaskNext]_vars

----------------------------------------------------------------------------
(* Properties *)

LoopPcs == {"loop", "response", "items"}
TailPcs == {"upload_raw", "format", "upload_formatted", "remove"}

Questions(examples) == { examples[i].question : i \in 1..Len(examples) }

(* C1: for every target N and every sequence of model responses, the       *)
(* accumulated example list never holds more than N examples while the     *)
(* loop runs, and holds exactly N examples once the loop has exited.       *)
C1_TargetNeverExceeded ==
    /\ gen_pc \in LoopPcs =>
          Len(all_generated_examples) <= target_examples
    /\ gen_pc \in TailPcs =>
          Len(all_generated_examples) = target_examples

(* C2: in every state of the generation loop no two accepted examples      *)
(* share a question, no accepted question is a seed question, every        *)
(* accepted example has a non-empty question and a non-empty query, and    *)
(* the seen-set is the seed questions united with the accepted questions.  *)
C2_UniqueFreshNonEmpty ==
    /\ \A i, j \in 1..Len(all_generated_examples) :
          i # j => all_generated_examples[i].question
                      # all_generated_examples[j].question
    /\ \A i \in 1..Len(all_generated_examples) :
          /\ all_generated_examples[i].question \notin sample_questions
          /\ all_generated_examples[i].question \notin {"", Missing}
          /\ all_generated_examples[i].query \notin {"", Missing}
    /\ gen_pc \in LoopPcs \cup TailPcs =>
          generated_questions_set =
              sample_questions \cup Questions(all_generated_examples)

(* Two items of one batch were accepted, with a seed question on file. *)
C2_Witness ==
    /\ gen_pc = "items"
    /\ gen_calls = 1
    /\ item_count = 2
    /\ Len(all_generated_examples) = 2
    /\ sample_questions = {"q0"}

EmptyListings(log) == { i \in 1..Len(log) : log[i] = << >> }

(* C3: if the endpoint listing is empty on its first k calls and non-empty *)
(* on call k+1, fine_tune_model makes exactly k+1 listing calls, sleeps    *)
(* exactly k times (after each empty listing, not after the non-empty      *)
(* one), and returns the identifier of the first endpoint of the           *)
(* non-empty listing.                                                      *)
C3_PollUntilFirstEndpoint ==
    [][ /\ ft_pc = "polling" =>
              /\ EmptyListings(listing_log) = 1..Len(listing_log)
              /\ ft_sleeps = Len(listing_log)
        /\ (ft_pc = "ready" /\ ft_pc' = "returned") =>
              LET n == Len(listing_log)
                  k == Cardinality(EmptyListings(listing_log))
              IN  /\ n = k + 1
                  /\ EmptyListings(listing_log) = 1..k
                  /\ ft_sleeps = k
                  /\ ft_output'.model_endpoint =
                        listing_log[n][1].resource_name
      ]_vars

(* Two empty listings, then one that starts with ep-123. *)
C3_Witness ==
    /\ ft_pc = "ready"
    /\ Len(listing_log) = 3
    /\ ft_sleeps = 2
    /\ Len(endpoints) = 2
    /\ tuned_model_endpoint.name = "ep-123"

Active(pc) == pc \notin {"idle", "returned", "failed"}

ZeroTablesListed == bq_tables = << >> /\ query_log # << >>

(* C5 as stated: with zero tables in the listing, schema lookup fails with *)
(* NotFoundError, issues no per-table lookup, and the generation stage     *)
(* ends with that error before any generative-model call.                  *)
C5_FailsWithNotFoundError ==
    ZeroTablesListed =>
        /\ gen_pc = "failed"
        /\ gen_error = "NotFoundError"
        /\ Len(query_log) = 1
        /\ gen_calls = 0

(* C5 amended: with zero tables in the listing, schema lookup fails with   *)
(* ValueError, issues no per-table lookup, and the generation stage ends   *)
(* with that error before any generative-model call.                       *)
C5_FailsWithValueError ==
    ZeroTablesListed =>
        /\ gen_pc = "failed"
        /\ gen_error = "ValueError"
        /\ Len(query_log) = 1
        /\ gen_calls = 0

(* The listing query succeeded and returned no table. *)
C5_Witness ==
    /\ ZeroTablesListed
    /\ query_log[1].ok
    /\ gen_pc = "failed"

NotAList == {"not_json", "json_scalar", "json_string", "json_object"}

(* C7: a model response that cannot be parsed as a JSON list of objects    *)
(* is a zero-yield batch: examples and seen-set stay unchanged, the run    *)
(* does not fail, and the loop goes on.                                    *)
C7_MalformedIsZeroYield ==
    [][ (gen_pc \in {"response", "items"} /\ raw_response_text \in NotAList)
            => /\ all_generated_examples' = all_generated_examples
               /\ generated_questions_set' = generated_questions_set
               /\ gen_pc' \in {"items", "loop"}
               /\ gen_error' = "none"
      ]_vars

(* C8 as stated: an error raised by a generative-model call is not         *)
(* retried: it ends the run and reaches the caller.                        *)
C8_ModelErrorPropagates ==
    [][ (gen_calls' = gen_calls + 1 /\ raw_response_text' = "None")
            => gen_pc' = "failed"
      ]_vars

(* C8 amended: an error raised by a generative-model call never ends the   *)
(* run: the call returns None, which is a zero-yield batch (examples and   *)
(* seen-set unchanged), the loop sleeps once and is still short of its     *)
(* target, so that it calls the model again.                               *)
C8_ModelErrorIsSwallowed ==
    [][ /\ gen_calls' = gen_calls + 1 =>
              gen_pc' = "response" /\ gen_error' = "none"
        /\ (gen_pc = "response" /\ raw_response_text = "None") =>
              /\ all_generated_examples' = all_generated_examples
              /\ generated_questions_set' = generated_questions_set
              /\ gen_sleeps' = gen_sleeps + 1
              /\ gen_pc' = "loop"
              /\ gen_error' = "none"
              /\ LoopCondition(Len(all_generated_examples'), target_examples')
      ]_vars

(* After a failed call the loop is back at its test, having slept. *)
C8_Witness ==
    /\ gen_pc = "loop"
    /\ raw_response_text = "None"
    /\ gen_calls = 1
    /\ gen_sleeps = 1

(* C9: with target 0, generate_synthetic_data makes no generative-model    *)
(* call and no sleep, and the example set it persists is empty.            *)
C9_ZeroTarget ==
    target_examples = 0 =>
        /\ gen_calls = 0
        /\ gen_sleeps = 0
        /\ all_generated_examples = << >>
        /\ \A f \in LocalNames : local_files[f].lines = << >>
        /\ \A p \in GcsPaths : gcs_objects[p].lines = << >>
        /\ gen_pc \in {"upload_raw", "format"} =>
              local_files[<< RawFile, 0 >>].exists
        /\ gen_pc = "returned" =>
              /\ gcs_objects[gen_output.raw_data_gcs_path].exists
              /\ gcs_objects[gen_output.generated_data_gcs_path].exists

(* A run with target 0 has returned. *)
C9_Witness ==
    /\ target_examples = 0
    /\ gen_pc = "returned"
    /\ gcs_objects[gen_output.raw_data_gcs_path].exists

BothNonEmpty(line) ==
    line.question \notin {Missing, ""} /\ line.query \notin {Missing, ""}

TwoTurnRecord(line) ==
    [contents |-> << [role |-> "user",  text |-> line.question],
                     [role |-> "model", text |-> line.query] >>]

(* C10: the formatter emits exactly one two-turn record (user = question,  *)
(* model = query) for each input line whose question and query are both    *)
(* non-empty, nothing for any other line, in the order of the input lines. *)
C10_OneRecordPerCompleteLine ==
    fmt_pc \in {"lines", "done"} =>
        LET kept == SelectSeq(SubSeq(infile, 1, line_idx - 1), BothNonEmpty)
        IN  /\ Len(outfile) = Len(kept)
            /\ count = Len(kept)
            /\ \A i \in 1..Len(kept) : outfile[i] = TwoTurnRecord(kept[i])
            /\ fmt_pc = "done" => line_idx = Len(infile) + 1

(* Three lines, the middle one without a question, two records out. *)
C10_Witness ==
    /\ fmt_pc = "done"
    /\ Len(infile) = 3
    /\ infile[2].question = Missing
    /\ Len(outfile) = 2
    /\ outfile[1] # outfile[2]

AfterPredictPcs == {"save", "upload", "averages", "returned"}

(* C11: for a dataset of R rows evaluate_model calls the tuned model once  *)
(* per row, in row order, on the endpoint it was given, never more than R  *)
(* times, and scoring starts only when all R calls have completed.         *)
C11_OneCallPerRowThenScoring ==
    /\ Len(prompt_log) <= eval_dataset
    /\ \A i \in 1..Len(prompt_log) :
          /\ prompt_log[i].row = i
          /\ prompt_log[i].endpoint = model_endpoint
    /\ (ev_pc \in AfterPredictPcs \/ metrics_table # << >>) =>
          /\ Len(prompt_log) = eval_dataset
          /\ \A i \in 1..Len(prompt_log) : prompt_log[i].ok
    /\ ev_pc \in AfterPredictPcs \ {"returned"} =>
          /\ Len(predictions) = eval_dataset
          /\ \A i \in 1..Len(predictions) : predictions[i].row = i

(* Three rows were generated for and scored. *)
C11_Witness ==
    /\ ev_pc = "save"
    /\ eval_dataset = 3
    /\ Len(prompt_log) = 3
    /\ Len(metrics_table) = 3

FailedCall == \E i \in 1..Len(prompt_log) : ~prompt_log[i].ok

(* C12: once a generation call has failed, evaluate_model has ended with   *)
(* that error: the failed call is the last call made, nothing was scored,  *)
(* no results file exists locally or in the bucket, nothing is returned.   *)
C12_RowFailureAborts ==
    FailedCall =>
        /\ ev_pc = "failed"
        /\ ev_error = "ApiError"
        /\ \A i \in 1..Len(prompt_log) :
              ~prompt_log[i].ok => i = Len(prompt_log)
        /\ Len(predictions) = Len(prompt_log) - 1
        /\ metrics_table = << >>
        /\ results_filename = NoResults
        /\ \A t \in Timestamps :
              /\ ~local_files[ResultsFile(t)].exists
              /\ ~gcs_objects[GcsPath(EvalFolder, ResultsFile(t))].exists
        /\ ev_output = NoEvalOutput

(* The call for the second of three rows failed. *)
C12_Witness ==
    /\ FailedCall
    /\ eval_dataset = 3
    /\ Len(prompt_log) = 2
    /\ ev_pc = "failed"

(* Sum of one score column, counted value by value. *)
RECURSIVE SumByValue(_, _, _)
SumByValue(table, metric, values) ==
    IF values = {} THEN 0
    ELSE LET v == CHOOSE x \in values : TRUE
         IN  v * Cardinality({ i \in 1..Len(table) : table[i][metric] = v })
             + SumByValue(table, metric, values \ {v})

(* The score table of the run, as persisted in the bucket. *)
PersistedTable == gcs_objects[ev_output.detailed_results_gcs_path].lines

(* C13: for a non-empty score table, each returned average is the sum of   *)
(* that metric's scores over all rows divided by the number of rows (kept  *)
(* as the fraction sum/rows), whatever the other two metrics' scores are.  *)
C13_AveragesAreColumnMeans ==
    (ev_pc = "returned" /\ PersistedTable # << >>) =>
        /\ ev_output.average_relevance =
              [sum  |-> SumByValue(PersistedTable, "relevance", ScoreValues),
               rows |-> Len(PersistedTable)]
        /\ ev_output.average_helpfulness =
              [sum  |-> SumByValue(PersistedTable, "helpfulness", ScoreValues),
               rows |-> Len(PersistedTable)]
        /\ ev_output.average_fulfillment =
              [sum  |-> SumByValue(PersistedTable, "fulfillment", ScoreValues),
               rows |-> Len(PersistedTable)]

(* Relevance scores 5, 4, 3 average to 4 (12/3) while the other two        *)
(* metrics average to something else.                                      *)
C13_Witness ==
    /\ ev_pc = "returned"
    /\ Len(PersistedTable) = 3
    /\ PersistedTable[1].relevance = 5
    /\ PersistedTable[2].relevance = 4
    /\ PersistedTable[3].relevance = 3
    /\ ev_output.average_relevance = [sum |-> 12, rows |-> 3]
    /\ ev_output.average_relevance.sum = 4 * ev_output.average_relevance.rows
    /\ ev_output.average_helpfulness.sum = 15
    /\ ev_output.average_fulfillment.sum = 9

(* C14: with the project identifier missing from the configuration,        *)
(* generate_synthetic_data fails at once: it sends no backend query and    *)
(* makes no generative-model call.                                         *)
C14_NoCallWithoutProject ==
    project_id = NoProject =>
        /\ query_log = << >>
        /\ gen_calls = 0
        /\ gen_pc \in {"list_tables", "failed"}

GenLocalFiles == { << RawFile, 0 >>, << FormattedFile, 0 >> }

(* The bucket holds a copy of local file f, put there by the running call. *)
UploadedCopy(f) ==
    IF f \in GenLocalFiles
    THEN gcs_objects[GcsPath(folder_name, f)] = local_files[f]
    ELSE gcs_objects[GcsPath(EvalFolder, f)] = local_files[f]

C15_State ==
    /\ gen_pc = "remove" =>
          \A f \in GenLocalFiles : local_files[f].exists /\ UploadedCopy(f)
    /\ gen_pc = "returned" =>
          /\ \A f \in GenLocalFiles : ~local_files[f].exists
          /\ gen_output.raw_data_gcs_path.folder =
                gen_output.generated_data_gcs_path.folder
          /\ gen_output.raw_data_gcs_path.name = << RawFile, 0 >>
          /\ gen_output.generated_data_gcs_path.name = << FormattedFile, 0 >>
          /\ gcs_objects[gen_output.raw_data_gcs_path].exists
          /\ gcs_objects[gen_output.generated_data_gcs_path].exists
    /\ gen_error = "UploadError" =>
          /\ local_files[<< RawFile, 0 >>].exists
          /\ gcs_objects[GcsPath(folder_name, << RawFile, 0 >>)].exists =>
                local_files[<< FormattedFile, 0 >>].exists
    /\ ev_pc = "returned" =>
          /\ \A t \in Timestamps : ~local_files[ResultsFile(t)].exists
          /\ gcs_objects[ev_output.detailed_results_gcs_path].exists
    /\ ev_error = "UploadError" =>
          /\ local_files[results_filename].exists
          /\ ~gcs_objects[GcsPath(EvalFolder, results_filename)].exists

(* C15: in generate_synthetic_data and evaluate_model a local file is      *)
(* deleted only when the bucket holds its uploaded copy; the raw and the   *)
(* formatted file go to the same run-scoped folder; after a normal return  *)
(* no local file of the call remains; after a failed upload the local      *)
(* files written so far are still there.                                   *)
C15_DeleteOnlyAfterUpload ==
    /\ []C15_State
    /\ [][ \A f \in LocalNames :
              (local_files[f].exists /\ ~local_files'[f].exists) =>
                  UploadedCopy(f)
         ]_vars

(* Both stages of a pipeline run have returned, their artifacts uploaded   *)
(* and their local files gone.                                             *)
C15_Witness ==
    /\ gen_pc = "returned"
    /\ ev_pc = "returned"
    /\ gcs_objects[gen_output.raw_data_gcs_path].lines # << >>
    /\ gcs_objects[gen_output.generated_data_gcs_path].lines # << >>
    /\ gcs_objects[ev_output.detailed_results_gcs_path].lines # << >>
    /\ \A f \in LocalNames : ~local_files[f].exists

OwnRawLines(i) ==
    [k \in 1..Len(inv_examples[i]) |-> RawLine(inv_examples[i][k])]

(* C16: of two interleaved invocations of generate_synthetic_data, neither *)
(* fails because the other removed its file, and the raw and formatted     *)
(* artifacts at the locations an invocation uploaded to hold exactly the   *)
(* examples that invocation accepted.                                      *)
C16_InvocationsIsolated ==
    \A i \in Invocations :
        /\ inv_error[i] # "FileNotFoundError"
        /\ inv_pc[i] \in {"format", "upload_formatted", "remove", "returned"} =>
              gcs_objects[GcsPath(inv_folder[i], << RawFile, 0 >>)].lines =
                  OwnRawLines(i)
        /\ inv_pc[i] \in {"remove", "returned"} =>
              gcs_objects[GcsPath(inv_folder[i], << FormattedFile, 0 >>)].lines =
                  PrepareChatFormat(OwnRawLines(i))

(* The assistant message the handler owes for a result of the agent call. *)
ExpectedReply(result) ==
    IF result.raised THEN ErrorMessage
    ELSE IF result.final_answer \in Answers
    THEN StreamText(result.final_answer)
    ELSE WarningMessage

C17_State ==
    /\ chat_escaped = "none"
    /\ \A i \in 1..Len(messages) :
          messages[i].role = IF i % 2 = 1 THEN "user" ELSE "assistant"
    /\ chat_pc = "idle" => Len(messages) % 2 = 0
    /\ chat_pc = "calling" => Len(messages) % 2 = 1
    /\ (chat_pc = "idle" /\ messages # << >>) =>
          messages[Len(messages)].content \in
              { StreamText(a) : a \in Answers }
                 \cup {WarningMessage, ErrorMessage}

(* C17: the history alternates user and assistant messages, every prompt   *)
(* handled has received exactly one assistant message (the streamed        *)
(* answer, the warning for an empty answer, or the generic failure message *)
(* when the agent call raised), and no exception leaves the handler.       *)
C17_OneReplyPerPrompt ==
    /\ []C17_State
    /\ [][ chat_pc = "calling" =>
              /\ Len(messages') = Len(messages) + 1
              /\ messages'[Len(messages')] =
                    [role |-> "assistant",
                     content |-> ExpectedReply(last_result')]
         ]_vars

(* A second prompt of a session was answered with the failure message      *)
(* after the agent call raised.                                            *)
C17_Witness ==
    /\ chat_pc = "idle"
    /\ Len(messages) = 4
    /\ last_result.raised
    /\ messages[4].content = ErrorMessage
    /\ messages[2].content = "SELECT 1 "

(* C18: every run of the formatter leaves in the output file exactly what  *)
(* the input lines determine, so a second run on the same input leaves the *)
(* same output as the first, whatever schema text either run was given.    *)
C18_FormatterIdempotent ==
    fmt_pc = "done" =>
        /\ outfile = PrepareChatFormat(infile)
        /\ fmt_run >= 2 => outfile = prev_outfile

(* A second run, given a schema text, on an input with a skipped line. *)
C18_Witness ==
    /\ fmt_pc = "done"
    /\ fmt_run = 2
    /\ all_schemas_str # << >>
    /\ Len(outfile) = 2
    /\ Len(infile) = 3
    /\ prev_outfile = outfile

(* Moves of fine_tune_model: "submit" is the call before sft.train,        *)
(* "polling" is SUBMITTED/POLLING, "ready" is ENDPOINT_READY.              *)
FtMoves ==
    { << "submit", "polling" >>, << "submit", "failed" >>,
      << "polling", "polling" >>, << "polling", "ready" >>,
      << "polling", "failed" >>, << "ready", "returned" >> }

C19_State ==
    /\ Len(tuning_jobs) <= 1
    /\ ft_pc = "submit" => tuning_jobs = << >> /\ ft_calls = << >>
    /\ ft_pc \in {"polling", "ready", "returned"} => Len(tuning_jobs) = 1
    /\ \A i \in 1..Len(ft_calls) :
          /\ ft_calls[i].call = IF i = 1 THEN "train" ELSE "list"
          /\ ~ft_calls[i].ok => i = Len(ft_calls) /\ ft_pc = "failed"
    /\ ft_pc = "polling" =>
          \A i \in 1..Len(listing_log) : listing_log[i] = << >>
    /\ ft_pc = "ready" =>
          /\ listing_log # << >>
          /\ listing_log[Len(listing_log)] # << >>
          /\ \A i \in 1..(Len(listing_log) - 1) : listing_log[i] = << >>
    /\ (ft_pc = "failed" /\ Len(ft_calls) > 1) => ft_error = "ListError"

(* C19: fine_tune_model submits exactly one tuning job, before its first   *)
(* endpoint listing, and never again; it leaves polling only for a         *)
(* non-empty listing or for the error of a listing call, after which no    *)
(* further call is made.                                                   *)
C19_SubmitPollReady ==
    /\ []C19_State
    /\ [][ /\ ft_pc' # ft_pc => << ft_pc, ft_pc' >> \in FtMoves
           /\ ft_pc = "failed" => UNCHANGED ft_vars
           /\ (ft_pc = "polling" /\ ft_pc' = "polling") =>
                 /\ UNCHANGED tuning_jobs
                 /\ Len(listing_log') = Len(listing_log) + 1
         ]_vars

(* Two empty listings, then the listing call raised. *)
C19_Witness ==
    /\ ft_pc = "failed"
    /\ ft_error = "ListError"
    /\ Len(ft_calls) = 4
    /\ Len(listing_log) = 2
    /\ Len(tuning_jobs) = 1

(* The loop test of line 159 holds: still short of the target. *)
Short == LoopCondition(Len(all_generated_examples), target_examples)

C20_State ==
    /\ gen_pc = "loop" =>
          gen_sleeps = IF Short \/ gen_calls = 0 THEN gen_calls
                       ELSE gen_calls - 1
    /\ gen_pc \in {"response", "items"} => gen_sleeps = gen_calls - 1
    /\ gen_pc \in TailPcs =>
          gen_sleeps = IF gen_calls = 0 THEN 0 ELSE gen_calls - 1
    /\ dup_batches <= gen_sleeps
    /\ (gen_pc = "loop" /\ Short /\ gen_calls < MaxCalls) =>
          ENABLED RequestBatch

(* C20: an item refused as already seen leaves the examples unchanged; a   *)
(* batch of such items only ends with one sleep, the run still short of    *)
(* its target and about to call the model again; the sleeps of a run are   *)
(* its iterations that ended short of the target, so the iteration that    *)
(* reaches the target is followed by no sleep.                             *)
C20_DelaysCountShortIterations ==
    /\ []C20_State
    /\ [][ /\ batch_dups' = batch_dups + 1 =>
                 UNCHANGED << all_generated_examples, generated_questions_set >>
           /\ dup_batches' = dup_batches + 1 =>
                 /\ UNCHANGED all_generated_examples
                 /\ gen_sleeps' = gen_sleeps + 1
                 /\ gen_pc' = "loop"
                 /\ Short'
           /\ (gen_pc \in {"response", "items"} /\ gen_pc' = "loop") =>
                 gen_sleeps' = IF Short' THEN gen_sleeps + 1 ELSE gen_sleeps
         ]_vars

(* Three batches of already-seen questions only, each followed by a sleep, *)
(* then a batch that reaches the target, followed by none.                 *)
C20_Witness ==
    /\ gen_pc = "loop"
    /\ ~Short
    /\ target_examples >= 1
    /\ dup_batches = 3
    /\ gen_calls = 4
    /\ gen_sleeps = 3

(* C23: every generation request of the loop asks for                      *)
(* batch_size = min(100, N - accumulated count); at every request          *)
(* 1 <= batch_size <= 100 and accumulated count + batch_size <= N.         *)
C23_BatchSizeClamped ==
    [][ gen_calls' = gen_calls + 1 =>
          LET n == Len(all_generated_examples) IN
          /\ batch_size' = Min(100, target_examples - n)
          /\ 1 <= batch_size' /\ batch_size' <= 100
          /\ n + batch_size' <= target_examples
      ]_vars

(* The second request of a run with target 101 and nothing accepted yet:   *)
(* 100 examples are asked for, not 101.                                    *)
C23_Witness ==
    /\ gen_pc = "response"
    /\ target_examples - Len(all_generated_examples) = 101
    /\ batch_size = 100
    /\ gen_calls = 2

IsPrefix(s, t) == Len(s) <= Len(t) /\ \A i \in 1..Len(s) : s[i] = t[i]

(* C26: across every step of the generation loop the accumulated list      *)
(* after the step has the list before it as a prefix (nothing is removed,  *)
(* reordered or modified), and the seen-set after the step is a superset   *)
(* of the seen-set before it.                                              *)
C26_ExamplesOnlyGrow ==
    [][ (gen_pc \in LoopPcs) =>
          /\ IsPrefix(all_generated_examples, all_generated_examples')
          /\ (generated_questions_set \subseteq generated_questions_set')
      ]_vars

(* Two examples accepted from two different responses, on top of a seed. *)
C26_Witness ==
    /\ gen_pc = "items"
    /\ gen_calls = 2
    /\ Len(all_generated_examples) = 2
    /\ all_generated_examples[1].question = "q1"
    /\ all_generated_examples[2].question = "q2"
    /\ generated_questions_set = {"q0", "q1", "q2"}

(* The record carries the given question and query, in the chat format. *)
RecordOf(record, question, answer) ==
    record = [contents |-> << [role |-> "user",  text |-> question],
                              [role |-> "model", text |-> answer] >>]

(* C25: within a run of generate_synthetic_data the formatted artifact     *)
(* holds exactly as many records as the raw artifact, and its i-th record  *)
(* carries the question and query of the i-th accepted example, both in    *)
(* the working directory before the upload and in the bucket after the     *)
(* return.                                                                 *)
C25_RecordsOneToOne ==
    /\ gen_pc \in {"upload_formatted", "remove"} =>
          LET raw       == local_files[<< RawFile, 0 >>].lines
              formatted == local_files[<< FormattedFile, 0 >>].lines
          IN  /\ Len(raw) = Len(all_generated_examples)
              /\ Len(formatted) = Len(raw)
              /\ \A i \in 1..Len(formatted) :
                    RecordOf(formatted[i],
                             all_generated_examples[i].question,
                             all_generated_examples[i].query)
    /\ gen_pc = "returned" =>
          LET raw       == gcs_objects[gen_output.raw_data_gcs_path].lines
              formatted == gcs_objects[gen_output.generated_data_gcs_path].lines
          IN  /\ Len(formatted) = Len(raw)
              /\ \A i \in 1..Len(formatted) :
                    RecordOf(formatted[i], raw[i].question, raw[i].query)

(* A run returned with two training records, q2 before q1. *)
C25_Witness ==
    /\ gen_pc = "returned"
    /\ LET formatted == gcs_objects[gen_output.generated_data_gcs_path].lines
       IN  /\ Len(formatted) = 2
           /\ RecordOf(formatted[1], "q2", "s1")
           /\ RecordOf(formatted[2], "q1", "s1")

(* Schema lookup has run to its end. *)
LookupDone == gen_pc \in {"read_seed"} \cup LoopPcs \cup TailPcs

(* C24: for a listing T1..Tk (k >= 1), schema lookup issues one table-list *)
(* lookup, then one column-schema lookup per table in listing order, and   *)
(* the schema text is the dataset header followed by one block per table   *)
(* in that same order, each with the table's fully-qualified name and the  *)
(* column listing its lookup returned; no table is omitted or repeated.    *)
C24_SchemaLookupInListingOrder ==
    /\ gen_pc = "get_table_schema" =>
          /\ Len(query_log) = table_idx
          /\ Len(all_schemas_string) = table_idx
    /\ (gen_pc = "get_table_schema" \/ LookupDone) =>
          /\ tables_df = bq_tables
          /\ Len(tables_df) >= 1
          /\ query_log[1].tool = "list_tables"
          /\ all_schemas_string[1] = SchemaHeader(project_id)
          /\ \A i \in 2..Len(query_log) :
                /\ query_log[i].tool = "get_table_schema"
                /\ query_log[i].table_id = tables_df[i - 1]
                /\ all_schemas_string[i] =
                      SchemaBlock(project_id, tables_df[i - 1],
                                  IF query_log[i].ok
                                  THEN TableColumns(tables_df[i - 1])
                                  ELSE << >>)
    /\ LookupDone =>
          /\ Len(query_log) = 1 + Len(tables_df)
          /\ Len(all_schemas_string) = 1 + Len(tables_df)

(* The listing was T1, T2; both column lookups succeeded; the text holds   *)
(* T1 with its two columns, then T2.                                       *)
C24_Witness ==
    /\ gen_pc = "read_seed"
    /\ tables_df = << "T1", "T2" >>
    /\ \A i \in 1..Len(query_log) : query_log[i].ok
    /\ all_schemas_string =
          << SchemaHeader(Project),
             SchemaBlock(Project, "T1",
                 << [column_name |-> "id", data_type |-> "INT64"],
                    [column_name |-> "q",  data_type |-> "STRING"] >>),
             SchemaBlock(Project, "T2", TableColumns("T2")) >>

InLoop      == gen_pc \in LoopPcs
BelowTarget == Len(all_generated_examples) < target_examples

(* C21: the generation loop has no cap on its attempts.  It is left        *)
(* without an error only with the target reached; once the model answers   *)
(* only with duplicate or unparseable content, a loop still below its      *)
(* target (N > 0) stays in the loop for ever, never fails, and keeps       *)
(* sending requests; a loop that has received enough fresh valid items     *)
(* terminates.                                                             *)
C21_LoopHasNoAttemptCap ==
    /\ [][ (InLoop /\ gen_pc' \notin LoopPcs \cup {"failed"})
              => ~BelowTarget ]_vars
    /\ []( (model_mode = "fruitless" /\ InLoop /\ BelowTarget)
              => [](InLoop /\ BelowTarget /\ gen_error = "none") )
    /\ []( (model_mode = "fruitless" /\ InLoop /\ BelowTarget)
              => []<>(gen_pc = "response") )
    /\ ( (InLoop /\ ~BelowTarget) ~> ~InLoop )

(* One example short of the target, the model has turned fruitless and a   *)
(* batch of two already-seen questions has just been refused.              *)
C21_Witness ==
    /\ model_mode = "fruitless"
    /\ ~observe
    /\ gen_pc = "items"
    /\ target_examples = 2
    /\ Len(all_generated_examples) = 1
    /\ batch_dups = 2

(* C22: the polling of fine_tune_model has no timeout, attempt bound or    *)
(* failure state.  Polling ends only with a non-empty listing or with the  *)
(* exception of a listing call; when no endpoint matching the job ever     *)
(* appears (every listing comes back empty) the invocation polls for ever, *)
(* the next listing call always due, and neither returns nor fails; when   *)
(* a matching endpoint has appeared the invocation eventually returns      *)
(* (or ends with the exception of a listing call).                         *)
C22_PollingHasNoTimeout ==
    /\ [][ (ft_pc = "polling" /\ ft_pc' # "polling") =>
              \/ ft_pc' = "ready" /\ endpoints' # << >>
              \/ ft_pc' = "failed" /\ ft_error' = "ListError" ]_vars
    /\ []( (endpoint_mode = "never" /\ ft_pc = "polling") =>
              [](/\ ft_pc = "polling"
                 /\ ft_error = "none"
                 /\ ft_output = NoEndpointOutput
                 /\ ENABLED ListEndpoints) )
    /\ ( (endpoint_mode = "deployed" /\ ft_pc = "polling")
            ~> (ft_pc = "returned" \/ ft_error = "ListError") )

(* The job job-2 was submitted and no endpoint will ever match it. *)
C22_Witness ==
    /\ endpoint_mode = "never"
    /\ ~observe
    /\ ft_pc = "polling"
    /\ job_id = "job-2"
    /\ Len(tuning_jobs) = 1
    /\ endpoints = << >>

(* The call does not pass the validation the claim names. *)
NotValid ==
    LET tool_config == tools_yaml[tool_name] IN
    \/ tool_config = Undeclared
    \/ tool_config.kind \notin {"bigquery-sql", "bigquery-execute-sql"}
    \/ tool_config.kind = "bigquery-execute-sql" /\ "query" \notin parameters

(* C27: execute_tool sends a query to the backend only after validation    *)
(* succeeded.  For a tool name that is not declared, a declared tool of an *)
(* unsupported kind, or a bigquery-execute-sql tool called without a       *)
(* query parameter, it raises ValueError and sends nothing; when the query *)
(* it sent fails, it returns an empty table and raises nothing.            *)
C27_QueryOnlyAfterValidation ==
    /\ NotValid =>
          /\ backend_log = << >>
          /\ et_pc \in {"start", "failed"}
          /\ et_pc = "failed" => et_error = "ValueError"
    /\ backend_log # << >> =>
          /\ ~NotValid
          /\ Len(backend_log) = 1
          /\ et_pc = "returned"
          /\ et_error = "none"
          /\ df = IF backend_log[1].ok THEN ResultRows ELSE << >>

(* execute_sql is declared as a bigquery-execute-sql tool and was called   *)
(* with a dataset_id only: ValueError, nothing sent.                       *)
C27_Witness ==
    /\ tool_name = "execute_sql"
    /\ tools_yaml[tool_name].kind = "bigquery-execute-sql"
    /\ parameters = {"dataset_id"}
    /\ et_pc = "failed"
    /\ et_error = "ValueError"
    /\ backend_log = << >>

(* Positions of the events that end the loop of lines 113-121. *)
FinalWithContent(evs) ==
    { i \in 1..Len(evs) : evs[i].final /\ evs[i].content # "None" }

FirstOf(S) == CHOOSE i \in S : \A j \in S : i <= j

C28_State ==
    /\ task_pc \in {"run", "events", "returned"} => session_id \in sessions
    /\ sessions = Range(created_log)
    /\ NoDup(created_log)
    /\ task_pc = "returned" =>
          LET stops == FinalWithContent(events_generator) IN
          IF stops = {}
          THEN /\ consumed = Len(events_generator)
               /\ final_answer = "None"
          ELSE LET event == events_generator[FirstOf(stops)] IN
               /\ consumed = FirstOf(stops)
               /\ final_answer =
                     IF event.content \in {"no_parts", "no_text", ""}
                     THEN "None" ELSE Strip(event.content)

(* C28: _run_agent_async_task creates a session only when none exists for  *)
(* the identifiers, so a session exists before the agent is run and an     *)
(* existing session is never created again; it returns the text (stripped  *)
(* of surrounding whitespace) of the first final-response event that has   *)
(* content, consumes no event after it, and returns no answer when no such *)
(* event is met or when that event carries no text.                        *)
C28_SessionOnceAnswerFromFirstFinal ==
    /\ []C28_State
    /\ [][ created_log' # created_log =>
              /\ session_id \notin sessions
              /\ sessions' = sessions \cup {session_id}
              /\ created_log' = Append(created_log, session_id)
         ]_vars
    /\ [][ task_pc = "run" => (task_pc' = "events" /\ session_id \in sessions)
         ]_vars

(* The second call for a session that the first call created: nothing is   *)
(* created, and of two final responses with text the first is returned,    *)
(* the second never taken from the generator.                              *)
C28_Witness ==
    /\ task_pc = "returned"
    /\ task_count = 2
    /\ session
    /\ created_log = << "session_1" >>
    /\ events_generator = << [final |-> TRUE, content |-> " hi "],
                             [final |-> TRUE, content |-> "ok"] >>
    /\ consumed = 1
    /\ final_answer = "hi"

----------------------------------------------------------------------------
(* The managed event loop of the chat page *)

(* A step in which call_agent_sync got the loop; a step in which Start New *)
(* Chat Session called close_managed_loop                                  *)
GetStep   == chat_pc = "calling" /\ chat_pc' = "idle"
CloseStep == chat_session' # chat_session

C29_State ==
    /\ IsLoop(asyncio_event_loop) =>
          /\ asyncio_event_loop \in 1..Len(loops)
          /\ ~loops[asyncio_event_loop].closed
    /\ (loop_is_managed = "True") =>
          /\ IsLoop(asyncio_event_loop)
          /\ asyncio_event_loop = returned_loop

(* C29: the loop get_or_create_managed_loop returns is open when it is     *)
(* returned and stays open while it is the stored loop; calls with no      *)
(* close in between return the same loop; after close_managed_loop the     *)
(* stored reference holds no loop and the managed flag is not set, and the *)
(* next get_or_create_managed_loop creates a fresh loop, stores it and     *)
(* sets the flag again.                                                    *)
C29_ManagedLoopLifecycle ==
    /\ []C29_State
    /\ [][ /\ GetStep =>
                /\ returned_loop' \in 1..Len(loops')
                /\ ~loops'[returned_loop'].closed
                /\ asyncio_event_loop' = returned_loop'
                /\ loop_is_managed' = "True"
                /\ (loop_is_managed = "True") =>
                      /\ returned_loop' = returned_loop
                      /\ loops' = loops
                /\ (loop_is_managed # "True") =>
                      /\ returned_loop' = Len(loops) + 1
                      /\ loops' = Append(loops, [closed |-> FALSE])
           /\ CloseStep =>
                /\ ~IsLoop(asyncio_event_loop')
                /\ loop_is_managed' # "True"
                /\ (loop_is_managed = "True") =>
                      /\ asyncio_event_loop' = NoLoop
                      /\ loop_is_managed' = "False"
                      /\ Len(loops') = Len(loops)
         ]_vars

(* A loop was got, closed by Start New Chat Session, and the next call got *)
(* a second, open loop.                                                    *)
C29_Witness ==
    /\ Len(loops) = 2
    /\ loops[1].closed
    /\ ~loops[2].closed
    /\ returned_loop = 2
    /\ asyncio_event_loop = 2
    /\ loop_is_managed = "True"

====
